---- MODULE Spec2Model ----
(***************************************************************************)
(* Model of the streaming-lab backend: the library scanner, the           *)
(* transcoder / HLS job tables with the cache manager, and the watch      *)
(* history tracker.  Each subsystem has its own specification over the    *)
(* shared state: SpecScan, SpecCache, SpecSweep (the cache sweeps over    *)
(* every cache directory a server start can find), SpecWatch.             *)
(*                                                                         *)
(* Node.js runs one handler at a time up to its next await, so every      *)
(* action below is one synchronous stretch of a handler (or one statement *)
(* executed by SQLite, or one step of an external ffmpeg process).        *)
(***************************************************************************)
EXTENDS Integers, Sequences, FiniteSets, Bags, TLC

\* ------------------------------------------------------------------------
\* Bounds
\* ------------------------------------------------------------------------
MaxScanClients == 2     \* HTTP clients that may post /library/scan

MaxProcs == 2           \* encoder processes alive at once
MaxClock == 4           \* wall-clock ticks explored
Mp4Chunks == 1          \* writes an encoder needs to produce a whole MP4
MaxFileSize == 2        \* largest file found in the cache directory at boot
MaxRequests == 2        \* watch requests being handled at once
MaxRowId == 2           \* rows ever inserted into watch_history
MaxOffset == 4          \* largest byte offset written in a Range header

ScanClients == 1..MaxScanClients

\* ------------------------------------------------------------------------
\* The scanned tree (environment): two roots X and Y.  "" is a request
\* body without a path.
\* ------------------------------------------------------------------------
ScanPaths == {"", "X", "Y"}

\* a library root L with a tv-shows folder
IndexPaths == {"", "L"}

\* readdir() contents of each directory: <<name, kind>> entries
DirEntries(d) ==
  CASE d = "X"          -> << <<"a.mp4", "file">>, <<"notes.txt", "file">>, <<"sub", "dir">> >>
    [] d = "X/sub"      -> << <<"b.mkv", "file">>, <<"b.en.srt", "file">> >>
    [] d = "Y"          -> << <<"c.mp4", "file">> >>
    [] d = "L"          -> << <<"tv-shows", "dir">> >>
    [] d = "L/tv-shows" -> << <<"S01E01.mkv", "file">>, <<"Show", "dir">> >>
    [] d = "L/tv-shows/Show" ->
         << <<"Show.S00E01.en.srt", "file">>, <<"Show.S00E01.mkv", "file">>,
            <<"Show.S01E02.1080p.mkv", "file">>, <<"Show.S01E02.720p.mkv", "file">> >>
    [] OTHER            -> << >>

\* extname(entry.name).toLowerCase()
ExtName(name) ==
  CASE name \in {"a.mp4", "c.mp4"} -> ".mp4"
    [] name \in {"b.mkv", "S01E01.mkv", "Show.S00E01.mkv",
                 "Show.S01E02.1080p.mkv", "Show.S01E02.720p.mkv"} -> ".mkv"
    [] name \in {"b.en.srt", "Show.S00E01.en.srt"} -> ".srt"
    [] name = "notes.txt"          -> ".txt"
    [] OTHER                       -> ""

VIDEO_EXTENSIONS == {".mp4", ".mkv", ".avi", ".mov", ".wmv", ".flv", ".webm"}

\* join(directoryPath, entry.name)
Join(d, name) ==
  CASE d = "X" /\ name = "a.mp4"     -> "X/a.mp4"
    [] d = "X" /\ name = "notes.txt" -> "X/notes.txt"
    [] d = "X" /\ name = "sub"       -> "X/sub"
    [] d = "X/sub" /\ name = "b.mkv" -> "X/sub/b.mkv"
    [] d = "X/sub" /\ name = "b.en.srt" -> "X/sub/b.en.srt"
    [] d = "Y" /\ name = "c.mp4"     -> "Y/c.mp4"
    [] d = "L" /\ name = "tv-shows"  -> "L/tv-shows"
    [] d = "L/tv-shows" /\ name = "S01E01.mkv" -> "L/tv-shows/S01E01.mkv"
    [] d = "L/tv-shows" /\ name = "Show"       -> "L/tv-shows/Show"
    [] d = "L/tv-shows/Show" /\ name = "Show.S00E01.en.srt"    -> "L/tv-shows/Show/Show.S00E01.en.srt"
    [] d = "L/tv-shows/Show" /\ name = "Show.S00E01.mkv"       -> "L/tv-shows/Show/Show.S00E01.mkv"
    [] d = "L/tv-shows/Show" /\ name = "Show.S01E02.1080p.mkv" -> "L/tv-shows/Show/Show.S01E02.1080p.mkv"
    [] d = "L/tv-shows/Show" /\ name = "Show.S01E02.720p.mkv"  -> "L/tv-shows/Show/Show.S01E02.720p.mkv"
    [] OTHER                         -> "?"

\* the directories a walk from a root reads
DirsUnder(root) ==
  CASE root = "X" -> {"X", "X/sub"}
    [] root = "Y" -> {"Y"}
    [] root = "L" -> {"L", "L/tv-shows", "L/tv-shows/Show"}
    [] OTHER      -> {}

AllDirs == DirsUnder("X") \cup DirsUnder("Y") \cup DirsUnder("L")

SUBTITLE_EXTENSIONS == {".srt", ".vtt", ".ass"}

\* dirname(videoFilePath)
Dirname(path) ==
  CASE path = "X/a.mp4"               -> "X"
    [] path = "X/sub/b.mkv"           -> "X/sub"
    [] path = "Y/c.mp4"               -> "Y"
    [] path = "L/tv-shows/S01E01.mkv" -> "L/tv-shows"
    [] OTHER                          -> "L/tv-shows/Show"

\* basename(filePath)
Basename(path) ==
  CASE path = "X/a.mp4"               -> "a.mp4"
    [] path = "X/sub/b.mkv"           -> "b.mkv"
    [] path = "Y/c.mp4"               -> "c.mp4"
    [] path = "L/tv-shows/S01E01.mkv" -> "S01E01.mkv"
    [] path = "L/tv-shows/Show/Show.S00E01.mkv"       -> "Show.S00E01.mkv"
    [] path = "L/tv-shows/Show/Show.S01E02.1080p.mkv" -> "Show.S01E02.1080p.mkv"
    [] path = "L/tv-shows/Show/Show.S01E02.720p.mkv"  -> "Show.S01E02.720p.mkv"
    [] OTHER                          -> "?"

\* file.startsWith(parse(videoFilePath).name)
StartsWithStem(file, video) ==
  \/ video = "a.mp4" /\ file = "a.mp4"
  \/ video = "b.mkv" /\ file \in {"b.mkv", "b.en.srt"}
  \/ video = "c.mp4" /\ file = "c.mp4"
  \/ video = "S01E01.mkv" /\ file = "S01E01.mkv"
  \/ video = "Show.S00E01.mkv" /\ file \in {"Show.S00E01.mkv", "Show.S00E01.en.srt"}
  \/ video = "Show.S01E02.1080p.mkv" /\ file = "Show.S01E02.1080p.mkv"
  \/ video = "Show.S01E02.720p.mkv" /\ file = "Show.S01E02.720p.mkv"

\* filePath.includes('/tv-shows/')
InTvShows(path) ==
  path \in {"L/tv-shows/S01E01.mkv", "L/tv-shows/Show/Show.S00E01.mkv",
            "L/tv-shows/Show/Show.S01E02.1080p.mkv", "L/tv-shows/Show/Show.S01E02.720p.mkv"}

\* filename.match(/[Ss](\d{1,2})[Ee](\d{1,2})/), then /(\d{1,2})x(\d{1,2})/:
\* <<parseInt(match[1]), parseInt(match[2])>>, or << >> without a match
EpisodeMatch(filename) ==
  CASE filename = "S01E01.mkv"            -> <<1, 1>>
    [] filename = "Show.S00E01.mkv"       -> <<0, 1>>
    [] filename = "Show.S01E02.1080p.mkv" -> <<1, 2>>
    [] filename = "Show.S01E02.720p.mkv"  -> <<1, 2>>
    [] OTHER                              -> << >>

\* pathParts[pathParts.findIndex(part => part === 'tv-shows') + 1]
ShowNameOf(path) ==
  IF path = "L/tv-shows/S01E01.mkv" THEN "S01E01.mkv" ELSE "Show"

\* filePath.split('/tv-shows/')[0] + '/tv-shows/' + showName
ShowPath(path, showName) ==
  IF showName = "S01E01.mkv" THEN "L/tv-shows/S01E01.mkv" ELSE "L/tv-shows/Show"

VARIABLES
  isScanning,     \* ScannerService.isScanning
  scanProgress,   \* ScannerService.scanProgress
  scanTask,       \* per client: the scanDirectory invocation it started
  scanCall,       \* per client: outcome of the promise scanDirectory returned
  scanResp,       \* per client: HTTP status of its last POST /library/scan (0 = none yet)
  media_items,    \* rows of table media_items (file_path column is what the scanner reads)
  tv_shows,       \* rows of table tv_shows
  episodes,       \* rows of table episodes
  subtitles,      \* rows of table subtitles
  disk,           \* files under CACHE_DIR: path -> [exists, size, mtime]
  procs,          \* bag of the ffmpeg commands that are running, with their job-table status
  clock,          \* Date.now()
  maintenance,    \* what performMaintenance returned, if the step just taken was one
  hlsResp,        \* what the manifest endpoint answered, if the step just taken was such a request
  hlsCompleted,   \* media ids for which a generateHLS promise has resolved
  settled,        \* the encoder promise that settled, if the step just taken settled one
  watch_history,  \* rows of table watch_history
  lastID,         \* AUTOINCREMENT sequence of watch_history
  requests,       \* bag of the watch requests being handled, each at its await
  lastSent,       \* per media item: the position the session reported last
  users,          \* rows of table users: [id, is_admin]
  authReq,        \* per HTTP client: its last request to a protected router
  streamReq,      \* per HTTP client: its last GET /stream/:id/direct and the response
  epReq,          \* per HTTP client: its last GET /library/episode/:episodeId/next|previous
  upnpClient,     \* the UPnP client of networkController: its devices map and discover calls
  upnpHeard,      \* per discover call: the USNs that responded while it was pending
  network_sources, \* rows of table network_sources: [id, protocol, host]
  activeClients,  \* networkController's client cache: key -> client object (0 = no entry)
  clients,        \* the protocol client objects created so far
  netReq          \* per HTTP client: its last request to /api/network/sources

scanVars == <<isScanning, scanProgress, scanTask, scanCall, scanResp, media_items,
             tv_shows, episodes, subtitles>>

storeVars == <<media_items, tv_shows, episodes, subtitles>>

cacheVars == <<disk, procs, clock, maintenance, hlsResp, hlsCompleted, settled>>

watchVars == <<watch_history, lastID, requests, lastSent>>

authVars == <<users, authReq>>

\* the state of the HTTP layer that scanner, cache and watch history leave alone
netVars == <<upnpClient, upnpHeard, network_sources, activeClients, clients, netReq>>

webVars == <<authVars, streamReq, epReq, netVars>>

vars == <<isScanning, scanProgress, scanTask, scanCall, scanResp, media_items,
          tv_shows, episodes, subtitles,
          disk, procs, clock, maintenance, hlsResp, hlsCompleted, settled,
          watch_history, lastID, requests, lastSent,
          users, authReq, streamReq, epReq,
          upnpClient, upnpHeard, network_sources, activeClients, clients, netReq>>

\* ------------------------------------------------------------------------
\* ScannerService
\* ------------------------------------------------------------------------
EmptyProgress ==
  [totalFiles |-> 0, scannedFiles |-> 0, addedFiles |-> 0, errors |-> << >>]

IdleTask == [pc |-> "idle", dir |-> "", videoFiles |-> << >>, k |-> 0]

\* findVideoFiles: depth-first walk; a directory whose readdir fails
\* contributes nothing (the catch returns what was collected so far).
RECURSIVE findVideoFiles(_, _, _)
RECURSIVE WalkEntries(_, _, _, _)
WalkEntries(d, entries, unreadable, acc) ==
  IF entries = << >> THEN acc
  ELSE LET e    == Head(entries)
           full == Join(d, e[1])
           acc2 == IF e[2] = "dir" THEN findVideoFiles(full, unreadable, acc)
                   ELSE IF ExtName(e[1]) \in VIDEO_EXTENSIONS THEN Append(acc, full)
                   ELSE acc
       IN WalkEntries(d, Tail(entries), unreadable, acc2)

findVideoFiles(d, unreadable, acc) ==
  IF d \in unreadable THEN acc
  ELSE WalkEntries(d, DirEntries(d), unreadable, acc)

\* the guard of scanDirectory (line 25)
ScanBusy_unguarded == FALSE

ScanBusy == isScanning

RunningScans == {c \in ScanClients : scanTask[c].pc \in {"find", "add"}}

\* POST /library/scan: scanLibrary calls scanDirectory, which runs
\* synchronously up to its first await; the handler then answers.
scanLibrary(c, path) ==
  /\ scanTask[c].pc \in {"idle", "ended"}
  /\ IF path = ""
       THEN /\ scanResp' = [scanResp EXCEPT ![c] = 400]
            /\ UNCHANGED <<isScanning, scanProgress, scanTask, scanCall, storeVars>>
            /\ UNCHANGED <<cacheVars, watchVars, webVars>>
       ELSE /\ IF ScanBusy
                 THEN \* throw new Error('Scan already in progress'); swallowed by .catch
                      /\ scanCall' = [scanCall EXCEPT ![c] = "Scan already in progress"]
                      /\ scanTask' = [scanTask EXCEPT ![c] = IdleTask]
                      /\ UNCHANGED <<isScanning, scanProgress>>
                 ELSE /\ isScanning' = TRUE
                      /\ scanProgress' = EmptyProgress
                      /\ scanTask' = [scanTask EXCEPT ![c] =
                                        [pc |-> "find", dir |-> path, videoFiles |-> << >>, k |-> 0]]
                      /\ scanCall' = [scanCall EXCEPT ![c] = "pending"]
            /\ scanResp' = [scanResp EXCEPT ![c] = 200]
            /\ UNCHANGED storeVars
            /\ UNCHANGED <<cacheVars, watchVars, webVars>>

\* await this.findVideoFiles(directoryPath); totalFiles = videoFiles.length
scanFind(c) ==
  /\ scanTask[c].pc = "find"
  /\ \E unreadable \in SUBSET DirsUnder(scanTask[c].dir) :
       LET vf == findVideoFiles(scanTask[c].dir, unreadable, << >>) IN
       /\ scanTask' = [scanTask EXCEPT ![c].pc = "add", ![c].videoFiles = vf, ![c].k = 1]
       /\ scanProgress' = [scanProgress EXCEPT !.totalFiles = Len(vf)]
  /\ UNCHANGED <<isScanning, scanCall, scanResp, storeVars>>
  /\ UNCHANGED <<cacheVars, watchVars, webVars>>

\* the four tables the indexer writes, as one value
Store ==
  [media_items |-> media_items, tv_shows |-> tv_shows,
   episodes |-> episodes, subtitles |-> subtitles]

\* database.run resolves { id: this.lastID, changes: this.changes }
dbRun(rowid) == [id |-> rowid, changes |-> 1]

\* NULL in an INTEGER key column (AUTOINCREMENT ids start at 1)
NullId == 0

\* result.lastID as the indexer reads it: a property the resolved object
\* does not have is undefined, which SQLite receives as NULL
lastIDOf(result) ==
  IF "lastID" \in DOMAIN result THEN result.lastID ELSE NullId

\* INSERT INTO media_items (type, title, file_path, ...): AUTOINCREMENT id,
\* duration is never named and stays NULL
insertMediaItem(st, type, filePath, sourceType, sourceConfigId) ==
  [st EXCEPT !.media_items = @ \cup
     {[id |-> Cardinality(@) + 1, type |-> type, file_path |-> filePath,
       duration |-> "NULL", source_type |-> sourceType,
       source_config_id |-> sourceConfigId]}]

\* files.filter(ext in SUBTITLE_EXTENSIONS && file.startsWith(videoBaseName)),
\* joined with the video's directory
SubtitleFiles(videoFilePath) ==
  LET videoDir == Dirname(videoFilePath)
      files    == DirEntries(videoDir)
      isSub(e) == /\ ExtName(e[1]) \in SUBTITLE_EXTENSIONS
                  /\ StartsWithStem(e[1], Basename(videoFilePath))
      RECURSIVE Pick(_)
      Pick(es) == IF es = << >> THEN << >>
                  ELSE IF isSub(Head(es))
                         THEN <<Join(videoDir, Head(es)[1])>> \o Pick(Tail(es))
                         ELSE Pick(Tail(es))
  IN Pick(files)

\* the loop of addSubtitlesForMedia: media_item_id is NOT NULL, so an INSERT
\* that binds NULL throws, and the catch around the loop abandons it
RECURSIVE insertSubtitles(_, _, _)
insertSubtitles(subs, files, mediaItemId) ==
  IF files = << >> \/ mediaItemId = NullId THEN subs
  ELSE insertSubtitles(
         subs \cup {[id |-> Cardinality(subs) + 1, media_item_id |-> mediaItemId,
                     file_path |-> Head(files)]},
         Tail(files), mediaItemId)

addSubtitlesForMedia(st, videoFilePath, mediaItemId) ==
  [st EXCEPT !.subtitles = insertSubtitles(@, SubtitleFiles(videoFilePath), mediaItemId)]

\* parseEpisodeInfo: << >> for null
parseEpisodeInfo(filePath) ==
  IF ~InTvShows(filePath) \/ EpisodeMatch(Basename(filePath)) = << >> THEN << >>
  ELSE [showName      |-> ShowNameOf(filePath),
        seasonNumber  |-> EpisodeMatch(Basename(filePath))[1],
        episodeNumber |-> EpisodeMatch(Basename(filePath))[2]]

\* addMovie (TMDB_AUTO_FETCH writes nothing: it is handed the same lastID)
addMovie(st, filePath, sourceType, sourceConfigId) ==
  LET result      == dbRun(Cardinality(st.media_items) + 1)
      inserted    == insertMediaItem(st, "movie", filePath, sourceType, sourceConfigId)
      mediaItemId == lastIDOf(result)
  IN addSubtitlesForMedia(inserted, filePath, mediaItemId)

\* addTVShowEpisode: find or create the show, then the episode's media item
\* and its episodes row
addTVShowEpisode(st, filePath, episodeInfo, sourceType, sourceConfigId) ==
  LET found    == {t \in st.tv_shows : t.title = episodeInfo.showName}
      showMediaResult == dbRun(Cardinality(st.media_items) + 1)
      tvShowResult    == dbRun(Cardinality(st.tv_shows) + 1)
      withShow ==
        IF found # {} THEN st
        ELSE [insertMediaItem(st, "tv_show", ShowPath(filePath, episodeInfo.showName),
                              sourceType, NullId)
                EXCEPT !.tv_shows = @ \cup
                  {[id |-> Cardinality(@) + 1,
                    media_item_id |-> lastIDOf(showMediaResult),
                    title |-> episodeInfo.showName]}]
      tvShowId ==
        IF found # {}
          THEN (CHOOSE t \in found : \A u \in found : t.id <= u.id).id
          ELSE lastIDOf(tvShowResult)
      episodeMediaResult == dbRun(Cardinality(withShow.media_items) + 1)
      withEpisode == insertMediaItem(withShow, "episode", filePath, sourceType, sourceConfigId)
      mediaItemId == lastIDOf(episodeMediaResult)
  IN [withEpisode EXCEPT !.episodes = @ \cup
        {[id |-> Cardinality(@) + 1, tv_show_id |-> tvShowId,
          season_number |-> episodeInfo.seasonNumber,
          episode_number |-> episodeInfo.episodeNumber,
          media_item_id |-> mediaItemId]}]

\* addMediaItem: skip a path already in media_items, else index it as an
\* episode or as a movie
addMediaItem(st, filePath, sourceType, sourceConfigId) ==
  IF \E m \in st.media_items : m.file_path = filePath
    THEN st
    ELSE IF parseEpisodeInfo(filePath) # << >>
      THEN addTVShowEpisode(st, filePath, parseEpisodeInfo(filePath), sourceType, sourceConfigId)
      ELSE addMovie(st, filePath, sourceType, sourceConfigId)

\* after the catch of one file's error the for loop goes on with the next
\* file
AfterFileError_abort(k, n) == n + 1

AfterFileError(k, n) == k + 1

\* one iteration of the for loop of scanDirectory
scanAddFile(c) ==
  /\ scanTask[c].pc = "add"
  /\ scanTask[c].k <= Len(scanTask[c].videoFiles)
  /\ LET filePath == scanTask[c].videoFiles[scanTask[c].k] IN
     \E ok \in BOOLEAN :
       /\ IF ok
            THEN /\ LET st == addMediaItem(Store, filePath, "local", NullId) IN
                      /\ media_items' = st.media_items
                      /\ tv_shows' = st.tv_shows
                      /\ episodes' = st.episodes
                      /\ subtitles' = st.subtitles
                 /\ scanProgress' = [scanProgress EXCEPT
                                       !.addedFiles = @ + 1, !.scannedFiles = @ + 1]
            ELSE \* stat() or the Store threw: recorded, not fatal
                 /\ UNCHANGED storeVars
                 /\ scanProgress' = [scanProgress EXCEPT
                                       !.errors = Append(@, filePath), !.scannedFiles = @ + 1]
       /\ scanTask' = [scanTask EXCEPT
                         ![c].k = IF ok THEN @ + 1
                                  ELSE AfterFileError(@, Len(scanTask[c].videoFiles))]
  /\ UNCHANGED <<isScanning, scanCall, scanResp>>
  /\ UNCHANGED <<cacheVars, watchVars, webVars>>

ScanFinally_kept == isScanning

\* finally { this.isScanning = false }
ScanFinally == FALSE

\* loop finished: return this.scanProgress; then the finally block
scanEnd(c) ==
  /\ scanTask[c].pc = "add"
  /\ scanTask[c].k > Len(scanTask[c].videoFiles)
  /\ isScanning' = ScanFinally
  /\ scanTask' = [scanTask EXCEPT ![c].pc = "ended"]
  /\ scanCall' = [scanCall EXCEPT ![c] = "resolved"]
  /\ UNCHANGED <<scanProgress, scanResp, storeVars>>
  /\ UNCHANGED <<cacheVars, watchVars, webVars>>


\* ------------------------------------------------------------------------
\* Cache directory, TranscodingService, HLSService, CacheService
\* ------------------------------------------------------------------------
MediaIds == {1, 2}                   \* ids whose artifacts are requested
HlsMediaIds == {1}                   \* ids whose HLS endpoints are requested
Qualities == {"720p"}                \* quality labels requested
SegmentNames == <<"segment000.ts">>  \* segments ffmpeg cuts the input into

\* units: sizes in MiB, times in clock ticks; both are the defaults of
\* cleanToSize(targetSize) and cleanOldFiles(maxAge)
MAX_CACHE_SIZE == 3
CACHE_TTL == 3

\* join(CACHE_DIR, `${mediaItemId}_${quality}.mp4`)
Mp4Path(id, q) == [kind |-> "mp4", id |-> id, name |-> q]
\* join(CACHE_DIR, `hls_${mediaItemId}`, 'playlist.m3u8')
PlaylistPath(id) == [kind |-> "hls", id |-> id, name |-> "playlist.m3u8"]
\* join(CACHE_DIR, `hls_${mediaItemId}`, segmentName)
SegmentPath(id, seg) == [kind |-> "hls", id |-> id, name |-> seg]

SegmentSet == {SegmentNames[i] : i \in 1..Len(SegmentNames)}

CachePaths ==
  {Mp4Path(id, q) : id \in MediaIds, q \in Qualities}
    \cup {PlaylistPath(id) : id \in HlsMediaIds}
    \cup {SegmentPath(id, seg) : id \in HlsMediaIds, seg \in SegmentSet}

NoFile == [exists |-> FALSE, size |-> 0, mtime |-> 0]

existsSync(path) == disk[path].exists

\* what handing out a cached artifact does to the cache directory: the path
\* is returned (transcodeQuality) or opened with createReadStream /
\* readFileSync (getHLSSegment, getPlaylist); nothing is written
readCached(d, path) == d

\* order in which readdirSync lists the cache tree (root entries, then the
\* entries of each hls_<id> directory): a fixed enumeration of CachePaths
SetToSeq(S) ==
  LET RECURSIVE Build(_)
      Build(T) == IF T = {} THEN << >>
                  ELSE LET x == CHOOSE y \in T : TRUE IN <<x>> \o Build(T \ {x})
  IN Build(S)

CacheListing == SetToSeq(CachePaths)

\* files of d that exist, in readdir order
RECURSIVE collectFiles(_, _)
collectFiles(d, listing) ==
  IF listing = << >> THEN << >>
  ELSE IF d[Head(listing)].exists
         THEN <<Head(listing)>> \o collectFiles(d, Tail(listing))
         ELSE collectFiles(d, Tail(listing))

\* updateCacheStats: totalSize over all files
RECURSIVE SumSizes(_, _)
SumSizes(d, fs) ==
  IF fs = << >> THEN 0 ELSE d[Head(fs)].size + SumSizes(d, Tail(fs))

totalSize(d) == SumSizes(d, collectFiles(d, CacheListing))

\* files.sort((a, b) => a.mtime - b.mtime): stable, oldest first
RECURSIVE InsertOldestFirst(_, _, _)
InsertOldestFirst(d, f, sorted) ==
  IF sorted = << >> THEN <<f>>
  ELSE IF d[f].mtime < d[Head(sorted)].mtime
         THEN <<f>> \o sorted
         ELSE <<Head(sorted)>> \o InsertOldestFirst(d, f, Tail(sorted))

RECURSIVE InsertNewestFirst(_, _, _)
InsertNewestFirst(d, f, sorted) ==
  IF sorted = << >> THEN <<f>>
  ELSE IF d[f].mtime > d[Head(sorted)].mtime
         THEN <<f>> \o sorted
         ELSE <<Head(sorted)>> \o InsertNewestFirst(d, f, Tail(sorted))

RECURSIVE SortNewestFirst(_, _)
SortNewestFirst(d, fs) ==
  IF fs = << >> THEN << >>
  ELSE InsertNewestFirst(d, fs[Len(fs)], SortNewestFirst(d, SubSeq(fs, 1, Len(fs) - 1)))

RECURSIVE SortByMtime(_, _)
SortByMtime(d, fs) ==
  IF fs = << >> THEN << >>
  ELSE InsertOldestFirst(d, fs[Len(fs)], SortByMtime(d, SubSeq(fs, 1, Len(fs) - 1)))

\* the deletion loop of cleanToSize: unlink oldest files until
\* currentSize <= targetSize
RECURSIVE DeleteUntil(_, _, _, _)
DeleteUntil(d, sorted, currentSize, targetSize) ==
  IF sorted = << >> \/ currentSize <= targetSize THEN d
  ELSE DeleteUntil([d EXCEPT ![Head(sorted)] = NoFile], Tail(sorted),
                   currentSize - d[Head(sorted)].size, targetSize)

cleanToSize(d, targetSize) ==
  IF totalSize(d) <= targetSize THEN d
  ELSE DeleteUntil(d, SortByMtime(d, collectFiles(d, CacheListing)),
                   totalSize(d), targetSize)

\* { deletedFiles, freedSpace } as both sweeps count them
SweepResult(before, after) ==
  [deletedFiles |-> Len(collectFiles(before, CacheListing)) - Len(collectFiles(after, CacheListing)),
   freedSpace   |-> totalSize(before) - totalSize(after)]

NoResult == [oldFiles |-> << >>, sizeLimit |-> << >>]

\* no promise of transcodeToMP4 or generateHLS settled in the step just taken
NoSettled == [kind |-> "none", id |-> 0, q |-> "", outcome |-> "none"]

\* the step just taken was no manifest request
NoHlsResponse == [kind |-> "none", id |-> 0, status |-> 0, body |-> << >>]

\* cleanOldFiles: unlink every file with now - mtime > maxAge
cleanOldFiles(d, now, maxAge) ==
  [path \in CachePaths |->
     IF d[path].exists /\ now - d[path].mtime > maxAge THEN NoFile ELSE d[path]]

\* performMaintenance: TTL sweep, then size sweep (timer every 6 h, or
\* POST /cache/clear without a mediaItemId)
performMaintenance ==
  LET swept == cleanOldFiles(disk, clock, CACHE_TTL)
      sized == cleanToSize(swept, MAX_CACHE_SIZE)
  IN
  /\ disk' = sized
  /\ maintenance' = [oldFiles  |-> SweepResult(disk, swept),
                     sizeLimit |-> SweepResult(swept, sized)]
  /\ hlsResp' = NoHlsResponse
  /\ settled' = NoSettled
  /\ UNCHANGED <<procs, clock, hlsCompleted>>
  /\ UNCHANGED <<scanVars, watchVars, webVars>>

\* time passes
Tick ==
  /\ clock < MaxClock
  /\ clock' = clock + 1
  /\ maintenance' = NoResult
  /\ settled' = NoSettled
  /\ hlsResp' = NoHlsResponse
  /\ UNCHANGED <<disk, procs, hlsCompleted>>
  /\ UNCHANGED <<scanVars, watchVars, webVars>>

MediaExists(id) == \E m \in media_items : m.id = id

\* an ffmpeg command object: what it encodes, how many writes it has made,
\* and whether the job table's entry for its key holds this very object
Command(kind, id, q) ==
  [kind |-> kind, id |-> id, q |-> q, written |-> 0, registered |-> TRUE]

SameKey(x, y) == x.kind = y.kind /\ x.id = y.id /\ x.q = y.q

Running == BagToSet(procs)

One(x) == SetToBag({x})

\* Map.set(key, command) replaces, and Map.delete(key) removes, the entry
\* of the key: a command that was registered under it no longer is
Unregister(b, x) ==
  LET hit == {y \in BagToSet(b) : SameKey(y, x) /\ y.registered}
      RECURSIVE Move(_, _)
      Move(bb, ys) ==
        IF ys = {} THEN bb
        ELSE LET y == CHOOSE z \in ys : TRUE
             IN Move((bb (-) One(y)) (+) One([y EXCEPT !.registered = FALSE]), ys \ {y})
  IN Move(b, hit)

\* this.activeTranscodes / this.activeStreams: the keys that have an entry
activeTranscodes ==
  {Mp4Path(x.id, x.q) : x \in {y \in Running : y.kind = "mp4" /\ y.registered}}

activeStreams ==
  {x.id : x \in {y \in Running : y.kind = "hls" /\ y.registered}}

\* the guard of transcodeQuality (line 370): is the output already there?
AlreadyTranscoded(id, q) == existsSync(Mp4Path(id, q))

\* POST /stream/:id/transcode -> transcodeQuality -> transcodeToMP4
triggerTranscode(id, q) ==
  /\ BagCardinality(procs) < MaxProcs
  /\ UNCHANGED hlsCompleted
  /\ IF ~MediaExists(id)
       THEN /\ maintenance' = NoResult
            /\ settled' = NoSettled
            /\ hlsResp' = NoHlsResponse
            /\ UNCHANGED <<disk, procs, clock>>
       ELSE IF AlreadyTranscoded(id, q)
         THEN \* 'Using cached transcode': the path is returned as is
              /\ disk' = readCached(disk, Mp4Path(id, q))
              /\ maintenance' = NoResult
              /\ settled' = NoSettled
              /\ hlsResp' = NoHlsResponse
              /\ UNCHANGED <<procs, clock>>
         ELSE \* ffmpeg(...); activeTranscodes.set(outputPath, command); command.run()
              /\ procs' = Unregister(procs, Command("mp4", id, q)) (+) One(Command("mp4", id, q))
              /\ maintenance' = NoResult
              /\ settled' = NoSettled
              /\ hlsResp' = NoHlsResponse
              /\ UNCHANGED <<disk, clock>>
  /\ UNCHANGED <<scanVars, watchVars, webVars>>

hlsExists_never(id) == FALSE

\* hlsExists(mediaItemId)
hlsExists(id) == existsSync(PlaylistPath(id))

\* the media playlist ffmpeg leaves with -hls_list_size 0: every segment
PlaylistContent == SegmentNames

\* getPlaylist(playlistPath): readFileSync of the playlist; the segment
\* URIs it lists
getPlaylist(id) == PlaylistContent

\* GET /stream/:id/hls/manifest.m3u8 -> hlsExists, generateHLS
getHLSManifest(id) ==
  /\ BagCardinality(procs) < MaxProcs
  /\ UNCHANGED hlsCompleted
  /\ IF ~MediaExists(id)
       THEN /\ maintenance' = NoResult
            /\ settled' = NoSettled
            /\ hlsResp' = [kind |-> "manifest", id |-> id, status |-> 404, body |-> << >>]
            /\ UNCHANGED <<disk, procs, clock>>
       ELSE IF ~hlsExists(id)
         THEN \* answered 202; ffmpeg(...); activeStreams.set(mediaItemId, command)
              /\ procs' = Unregister(procs, Command("hls", id, "")) (+) One(Command("hls", id, ""))
              /\ maintenance' = NoResult
              /\ settled' = NoSettled
              /\ hlsResp' = [kind |-> "manifest", id |-> id, status |-> 202, body |-> << >>]
              /\ UNCHANGED <<disk, clock>>
         ELSE \* answered 200 with the playlist
              /\ disk' = readCached(disk, PlaylistPath(id))
              /\ maintenance' = NoResult
              /\ settled' = NoSettled
              /\ hlsResp' = [kind |-> "manifest", id |-> id, status |-> 200,
                             body |-> getPlaylist(id)]
              /\ UNCHANGED <<procs, clock>>
  /\ UNCHANGED <<scanVars, watchVars, webVars>>

\* GET /stream/:id/hls/:segment -> getSegment, createReadStream
getHLSSegment(id, seg) ==
  /\ IF existsSync(SegmentPath(id, seg))
       THEN disk' = readCached(disk, SegmentPath(id, seg))   \* 200 video/mp2t
       ELSE disk' = disk         \* getSegment throws 'Segment not found': 404
  /\ maintenance' = NoResult
  /\ hlsResp' = NoHlsResponse
  /\ settled' = NoSettled
  /\ UNCHANGED <<procs, clock, hlsCompleted>>
  /\ UNCHANGED <<scanVars, watchVars, webVars>>

\* a file written now: created if absent, grown otherwise
Written(f, bytes) == [exists |-> TRUE, size |-> f.size + bytes, mtime |-> clock]

\* ffmpeg writing one chunk of its MP4 output; once the output has been
\* unlinked the writes go to the orphaned inode
encoderWriteMp4(x) ==
  /\ x \in Running /\ x.kind = "mp4"
  /\ x.written < Mp4Chunks
  /\ LET out == Mp4Path(x.id, x.q) IN
       disk' = IF x.written = 0 \/ disk[out].exists
                 THEN [disk EXCEPT ![out] = Written(@, 1)]
                 ELSE disk
  /\ procs' = (procs (-) One(x)) (+) One([x EXCEPT !.written = @ + 1])
  /\ maintenance' = NoResult
  /\ settled' = NoSettled
  /\ hlsResp' = NoHlsResponse
  /\ UNCHANGED <<clock, hlsCompleted>>
  /\ UNCHANGED <<scanVars, watchVars, webVars>>

\* ffmpeg's hls muxer: each segment first, the playlist that lists them last
encoderWriteHls(x) ==
  /\ x \in Running /\ x.kind = "hls"
  /\ x.written <= Len(SegmentNames)
  /\ disk' = IF x.written < Len(SegmentNames)
               THEN [disk EXCEPT ![SegmentPath(x.id, SegmentNames[x.written + 1])] =
                                    Written(NoFile, 1)]
               ELSE [disk EXCEPT ![PlaylistPath(x.id)] = Written(NoFile, 1)]
  /\ procs' = (procs (-) One(x)) (+) One([x EXCEPT !.written = @ + 1])
  /\ maintenance' = NoResult
  /\ settled' = NoSettled
  /\ hlsResp' = NoHlsResponse
  /\ UNCHANGED <<clock, hlsCompleted>>
  /\ UNCHANGED <<scanVars, watchVars, webVars>>

Finished(x) ==
  IF x.kind = "mp4" THEN x.written = Mp4Chunks
  ELSE x.written = Len(SegmentNames) + 1

\* command.on('end') / command.on('error'): the process is gone and the
\* entry of its key is deleted from the job table, whichever command it held
encoderExit(x) ==
  /\ x \in Running
  /\ \E ok \in BOOLEAN :
       /\ ok => Finished(x)
       /\ procs' = Unregister(procs (-) One(x), x)
       \* 'end' resolves the promise of transcodeToMP4 / generateHLS,
       \* 'error' rejects it
       /\ settled' = [kind |-> x.kind, id |-> x.id, q |-> x.q,
                      outcome |-> IF ok THEN "resolved" ELSE "rejected"]
       /\ hlsCompleted' = IF ok /\ x.kind = "hls" THEN hlsCompleted \cup {x.id}
                                                 ELSE hlsCompleted
  /\ maintenance' = NoResult
  /\ hlsResp' = NoHlsResponse
  /\ UNCHANGED <<disk, clock>>
  /\ UNCHANGED <<scanVars, watchVars, webVars>>

\* every command that can be alive
Commands ==
  {[kind |-> "mp4", id |-> id, q |-> q, written |-> w, registered |-> r] :
      id \in MediaIds, q \in Qualities, w \in 0..Mp4Chunks, r \in BOOLEAN}
    \cup {[kind |-> "hls", id |-> id, q |-> "", written |-> w, registered |-> r] :
      id \in HlsMediaIds, w \in 0..(Len(SegmentNames) + 1), r \in BOOLEAN}

\* paths a running encoder job is writing
InFlight ==
  {Mp4Path(x.id, x.q) : x \in {y \in Running : y.kind = "mp4"}}
    \cup {PlaylistPath(x.id) : x \in {y \in Running : y.kind = "hls"}}

\* cancelTranscode(outputPath): the value returned, true when the job table
\* has a command under the key (which is then killed and removed)
cancelTranscode(outputPath) == outputPath \in activeTranscodes

\* cancelGeneration(mediaItemId), likewise on activeStreams
cancelGeneration(mediaItemId) == mediaItemId \in activeStreams

\* ------------------------------------------------------------------------
\* WatchHistoryService and the /metadata/watch controllers
\* ------------------------------------------------------------------------
WatchUsers == {1}                    \* req.user.id of the session
WatchMedia == {1}                    \* media items the session reports on

\* bodies {currentTime, duration} posted to /metadata/watch/progress
Positions == {<<10, 20>>, <<19, 20>>, <<-1, -1>>, <<10, 0>>}

NoPosition == << >>

\* a REAL column value, kept exact as a fraction with den > 0
Frac(num, den) == [num |-> num, den |-> den]

GEq(a, b) == a.num * b.den >= b.num * a.den

continueWatchingThreshold == Frac(95, 100)

\* progress = duration > 0 ? (currentTime / duration) * 100 : 0
Progress(currentTime, duration) ==
  IF duration > 0 THEN Frac(currentTime * 100, duration) ELSE Frac(0, 1)

Completed_strict(progress) ==
  ~GEq(Frac(continueWatchingThreshold.num * 100, continueWatchingThreshold.den), progress)

\* completed = progress >= (this.continueWatchingThreshold * 100)
Completed(progress) ==
  GEq(progress, Frac(continueWatchingThreshold.num * 100, continueWatchingThreshold.den))

\* WHERE user_id = ? AND media_item_id = ?
RowsOf(userId, mediaItemId) ==
  {r \in watch_history : r.user_id = userId /\ r.media_item_id = mediaItemId}

\* database.get(SELECT id ...): the first matching row in rowid order, 0 for
\* undefined
dbGetExisting(userId, mediaItemId) ==
  IF RowsOf(userId, mediaItemId) = {} THEN 0
  ELSE CHOOSE id \in {r.id : r \in RowsOf(userId, mediaItemId)} :
         \A r \in RowsOf(userId, mediaItemId) : id <= r.id

Request(op, userId, mediaItemId, currentTime, duration, pc) ==
  [op |-> op, userId |-> userId, mediaItemId |-> mediaItemId,
   currentTime |-> currentTime, duration |-> duration, pc |-> pc, existing |-> 0]

Handling == BagToSet(requests)

\* POST /metadata/watch/progress: validation, then updateProgress up to its
\* await of the SELECT
updateWatchProgress(userId, mediaItemId, pos) ==
  /\ BagCardinality(requests) < MaxRequests
  /\ IF pos[2] = 0
       THEN \* !duration: 400
            UNCHANGED watchVars
       ELSE /\ requests' = requests (+)
                 One(Request("progress", userId, mediaItemId, pos[1], pos[2], "select"))
            /\ lastSent' = [lastSent EXCEPT ![mediaItemId] = pos]
            /\ UNCHANGED <<watch_history, lastID>>
  /\ UNCHANGED <<scanVars, cacheVars, webVars>>

\* POST /metadata/watch/mark-watched/:id up to the await of the duration SELECT
markAsWatched(userId, mediaItemId) ==
  /\ BagCardinality(requests) < MaxRequests
  /\ requests' = requests (+) One(Request("watched", userId, mediaItemId, 0, 0, "media"))
  /\ lastSent' = [lastSent EXCEPT ![mediaItemId] = NoPosition]
  /\ UNCHANGED <<watch_history, lastID>>
  /\ UNCHANGED <<scanVars, cacheVars, webVars>>

\* SELECT duration FROM media_items answers; duration = mediaItem?.duration || 0;
\* updateProgress(userId, mediaItemId, duration, duration) up to its await
markAsWatchedDuration(x) ==
  /\ x \in Handling /\ x.pc = "media"
  /\ LET mediaItem == {m \in media_items : m.id = x.mediaItemId}
         duration  == IF mediaItem = {} THEN 0
                      ELSE LET m == CHOOSE m \in mediaItem : TRUE
                           IN IF m.duration = "NULL" THEN 0 ELSE m.duration
     IN requests' = (requests (-) One(x)) (+)
          One([x EXCEPT !.pc = "select", !.currentTime = duration, !.duration = duration])
  /\ UNCHANGED <<watch_history, lastID, lastSent>>
  /\ UNCHANGED <<scanVars, cacheVars, webVars>>

\* the SELECT of updateProgress answers; the UPDATE or INSERT is handed to SQLite
updateProgressSelect(x) ==
  /\ x \in Handling /\ x.pc = "select"
  /\ requests' = (requests (-) One(x)) (+)
       One([x EXCEPT !.pc = "write", !.existing = dbGetExisting(x.userId, x.mediaItemId)])
  /\ UNCHANGED <<watch_history, lastID, lastSent>>
  /\ UNCHANGED <<scanVars, cacheVars, webVars>>

\* SQLite executes the UPDATE ... WHERE id = existing.id, or the INSERT; the
\* handler answers
updateProgressWrite(x) ==
  /\ x \in Handling /\ x.pc = "write"
  /\ LET progress  == Progress(x.currentTime, x.duration)
         completed == Completed(progress)
     IN IF x.existing # 0
          THEN /\ watch_history' =
                    {IF r.id = x.existing
                       THEN [r EXCEPT !.current_time = x.currentTime, !.duration = x.duration,
                                      !.progress = progress, !.completed = completed]
                       ELSE r : r \in watch_history}
               /\ UNCHANGED lastID
          ELSE /\ lastID < MaxRowId
               /\ lastID' = lastID + 1
               /\ watch_history' = watch_history \cup
                    {[id |-> lastID + 1, user_id |-> x.userId, media_item_id |-> x.mediaItemId,
                      current_time |-> x.currentTime, duration |-> x.duration,
                      progress |-> progress, completed |-> completed, watch_count |-> 1]}
  /\ requests' = requests (-) One(x)
  /\ UNCHANGED lastSent
  /\ UNCHANGED <<scanVars, cacheVars, webVars>>

\* what getProgress returns for null
NoRecord == [id |-> 0]

\* getProgress: SELECT ... FROM watch_history wh JOIN media_items mi
\* ON wh.media_item_id = mi.id WHERE wh.user_id = ? AND wh.media_item_id = ?;
\* database.get hands back the first row, record || null
getProgress(userId, mediaItemId) ==
  LET joined == {r \in RowsOf(userId, mediaItemId) :
                   \E mi \in media_items : mi.id = r.media_item_id}
  IN IF joined = {} THEN NoRecord
     ELSE CHOOSE r \in joined : \A q \in joined : r.id <= q.id

\* DELETE /metadata/watch/mark-unwatched/:id
markAsUnwatched(userId, mediaItemId) ==
  /\ watch_history' = watch_history \ RowsOf(userId, mediaItemId)
  /\ lastSent' = [lastSent EXCEPT ![mediaItemId] = NoPosition]
  /\ UNCHANGED <<lastID, requests>>
  /\ UNCHANGED <<scanVars, cacheVars, webVars>>

\* POST /metadata/watch/reset/:id
resetProgress(userId, mediaItemId) ==
  /\ watch_history' =
       {IF r \in RowsOf(userId, mediaItemId)
          THEN [r EXCEPT !.current_time = 0, !.progress = Frac(0, 1), !.completed = FALSE]
          ELSE r : r \in watch_history}
  /\ lastSent' = [lastSent EXCEPT ![mediaItemId] = NoPosition]
  /\ UNCHANGED <<lastID, requests>>
  /\ UNCHANGED <<scanVars, cacheVars, webVars>>

\* DELETE FROM media_items WHERE id = ?: foreign keys are never switched on
\* for the connection, so no other table is touched
dbDeleteMediaItem(id) == {m \in media_items : m.id # id}

\* DELETE /library/:id (answers 404 when result.changes === 0)
deleteMediaItem(id) ==
  /\ media_items' = dbDeleteMediaItem(id)
  /\ UNCHANGED <<isScanning, scanProgress, scanTask, scanCall, scanResp>>
  /\ UNCHANGED <<tv_shows, episodes, subtitles>>
  /\ UNCHANGED <<cacheVars, watchVars, webVars>>

\* DELETE /admin/media/:mediaId: 404 when the SELECT finds nothing, else the
\* same DELETE (and, on request, the unlink of the video file)
adminDeleteMediaItem(mediaId) ==
  /\ IF \E media \in media_items : media.id = mediaId
       THEN media_items' = dbDeleteMediaItem(mediaId)
       ELSE UNCHANGED media_items
  /\ UNCHANGED <<isScanning, scanProgress, scanTask, scanCall, scanResp>>
  /\ UNCHANGED <<tv_shows, episodes, subtitles>>
  /\ UNCHANGED <<cacheVars, watchVars, webVars>>

\* server start: UPDATE watch_history SET progress = progress / 100.0
\* WHERE progress > 1; no request survives the restart
runMigrations ==
  /\ watch_history' =
       {[r EXCEPT !.progress = IF r.progress.num > r.progress.den
                                 THEN Frac(r.progress.num, r.progress.den * 100)
                                 ELSE @] : r \in watch_history}
  /\ requests' = EmptyBag
  /\ lastSent' = [m \in WatchMedia |-> NoPosition]
  /\ UNCHANGED lastID
  /\ UNCHANGED <<scanVars, cacheVars, webVars>>

\* ------------------------------------------------------------------------
\* Authentication middleware: authenticateToken, requireAdmin, and the admin
\* handler that changes is_admin
\* ------------------------------------------------------------------------
AuthClients == {1, 2}

\* ids of the rows of users; tokens may also name user 3, whose row is gone
UserIds == {1, 2}

TokenIds == {1, 2, 3}

\* routers mounted behind authenticateToken
ProtectedRouters == {"library", "stream", "network", "metadata", "subtitles"}

\* a JWT by what jwt.verify makes of it: payload id, and "ok", "expired" or
\* "forged" (bad signature or not a JWT at all)
NoToken == [id |-> 0, state |-> "none"]

\* a good token of each user, an expired one, and one that is no JWT
Tokens ==
  {[id |-> id, state |-> "ok"] : id \in TokenIds}
    \cup {[id |-> 1, state |-> "expired"], [id |-> 0, state |-> "forged"]}

\* how a request carries its token: Authorization: Bearer <token>, or
\* ?token=<token>, or not at all
NoCredential == [carrier |-> "none", token |-> NoToken]

Credentials == {NoCredential} \cup [carrier : {"header", "query"}, token : Tokens]

\* what the request presents, whatever the middleware reads
CredClass(cred) ==
  IF cred.carrier = "none" THEN "none"
  ELSE IF cred.token.state = "ok" THEN "valid" ELSE "invalid"

\* jwt.verify(token, JWT_SECRET): no error
jwtVerify(token) == token.state = "ok"

\* authHeader && authHeader.split(' ')[1], else req.query.token
TokenRead(cred) ==
  IF cred.carrier \in {"header", "query"} THEN cred.token ELSE NoToken

\* req.headers.authorization?.replace('Bearer ', '')
HeaderToken(cred) ==
  IF cred.carrier = "header" THEN cred.token ELSE NoToken

IdleReq ==
  [pc |-> "idle", router |-> "", cred |-> "none", id |-> 0, op |-> "",
   target |-> 0, newStatus |-> FALSE, status |-> 0, ran |-> FALSE]

\* the answer of authenticateToken: 401, 403, or 0 for next()
authenticateToken(cred) ==
  IF TokenRead(cred) = NoToken THEN 401
  ELSE IF ~jwtVerify(TokenRead(cred)) THEN 403
  ELSE 0

\* a request to a router behind authenticateToken: the middleware is
\* synchronous, and next() runs the handler
protectedRequest(c, router, cred) ==
  /\ authReq[c].pc \in {"idle", "done"}
  /\ authReq' = [authReq EXCEPT ![c] =
       [IdleReq EXCEPT !.pc = "done", !.router = router, !.cred = CredClass(cred),
                       !.status = IF authenticateToken(cred) = 0 THEN 200
                                  ELSE authenticateToken(cred),
                       !.ran = (authenticateToken(cred) = 0)]]
  /\ UNCHANGED users
  /\ UNCHANGED <<scanVars, cacheVars, watchVars, streamReq, epReq, netVars>>

AdminOps == {"dashboard", "toggle", "delete"}

\* a request to /api/admin: requireAdmin up to its await of the SELECT; a
\* missing header and a jwt.verify that throws are both answered 401
adminRequest(c, cred, op, target) ==
  /\ authReq[c].pc \in {"idle", "done"}
  /\ LET token == HeaderToken(cred)
         req   == [IdleReq EXCEPT !.router = "admin", !.cred = CredClass(cred)]
     IN authReq' = [authReq EXCEPT ![c] =
          IF token = NoToken THEN [req EXCEPT !.pc = "done", !.status = 401]
          ELSE IF ~jwtVerify(token) THEN [req EXCEPT !.pc = "done", !.status = 401]
          ELSE \* decoded.id, and the route the request is for
               [req EXCEPT !.pc = "select", !.id = token.id, !.op = op,
                           !.target = IF op \in {"toggle", "delete"} THEN target ELSE 0]]
  /\ UNCHANGED users
  /\ UNCHANGED <<scanVars, cacheVars, watchVars, streamReq, epReq, netVars>>

\* SELECT ... FROM users WHERE id = ?
dbGetUser(id) == {u \in users : u.id = id}

AdminAllowed_any(user) == TRUE

\* !user.is_admin is answered 403
AdminAllowed(user) == user.is_admin

\* the SELECT of requireAdmin answers: 401 without a row, 403 without the
\* flag, else next(); the handler then runs up to its first await
adminAuthorize(c) ==
  /\ authReq[c].pc = "select"
  /\ LET found == dbGetUser(authReq[c].id)
         req   == authReq[c]
     IN authReq' = [authReq EXCEPT ![c] =
          IF found = {} THEN [req EXCEPT !.pc = "done", !.status = 401]
          ELSE IF ~AdminAllowed(CHOOSE u \in found : TRUE)
            THEN [req EXCEPT !.pc = "done", !.status = 403]
          ELSE IF req.op = "toggle" /\ req.target # req.id
            THEN [req EXCEPT !.pc = "toggleSelect", !.ran = TRUE]
          ELSE IF req.op = "delete" /\ req.target # req.id
            THEN [req EXCEPT !.pc = "deleteRun", !.ran = TRUE]
          ELSE \* 'Cannot change your own admin status', 'Cannot delete your
               \* own account', or a read-only handler
               [req EXCEPT !.pc = "done", !.ran = TRUE,
                           !.status = IF req.op \in {"toggle", "delete"}
                                        THEN 400 ELSE 200]]
  /\ UNCHANGED users
  /\ UNCHANGED <<scanVars, cacheVars, watchVars, streamReq, epReq, netVars>>

\* toggleAdminStatus: SELECT is_admin answers; 404 without a row
toggleAdminSelect(c) ==
  /\ authReq[c].pc = "toggleSelect"
  /\ LET found == dbGetUser(authReq[c].target)
     IN authReq' = [authReq EXCEPT ![c] =
          IF found = {} THEN [@ EXCEPT !.pc = "done", !.status = 404]
          ELSE [@ EXCEPT !.pc = "toggleUpdate",
                         !.newStatus = ~(CHOOSE u \in found : TRUE).is_admin]]
  /\ UNCHANGED users
  /\ UNCHANGED <<scanVars, cacheVars, watchVars, streamReq, epReq, netVars>>

\* toggleAdminStatus: UPDATE users SET is_admin = ? WHERE id = ?; 200
toggleAdminStatus(c) ==
  /\ authReq[c].pc = "toggleUpdate"
  /\ users' = {IF u.id = authReq[c].target
                 THEN [u EXCEPT !.is_admin = authReq[c].newStatus] ELSE u : u \in users}
  /\ authReq' = [authReq EXCEPT ![c].pc = "done", ![c].status = 200]
  /\ UNCHANGED <<scanVars, cacheVars, watchVars, streamReq, epReq, netVars>>

\* deleteUser: DELETE FROM users WHERE id = ?; 200 whether or not a row went
deleteUser(c) ==
  /\ authReq[c].pc = "deleteRun"
  /\ users' = {u \in users : u.id # authReq[c].target}
  /\ authReq' = [authReq EXCEPT ![c].pc = "done", ![c].status = 200]
  /\ UNCHANGED <<scanVars, cacheVars, watchVars, streamReq, epReq, netVars>>

\* ------------------------------------------------------------------------
\* GET /stream/:id/direct: directStream, DirectStreamService.streamFile,
\* TranscodingService.streamTranscode
\* ------------------------------------------------------------------------
StreamClients == {1}

\* media ids asked for; 5 has no row
StreamMediaIds == {1, 2, 3, 4, 5}

\* mediaItem.file_path.toLowerCase().split('.').pop()
fileExt(path) ==
  CASE path \in {"X/a.mp4", "Y/c.mp4"} -> "mp4"
    [] path = "X/sub/b.mkv"           -> "mkv"
    [] path = "Z/d.avi"               -> "avi"
    [] OTHER                          -> ""

\* statSync(filePath).size
statSize(path) ==
  CASE path = "X/a.mp4" -> 3
    [] path = "Y/c.mp4" -> 2
    [] path = "Z/d.avi" -> 1
    [] OTHER            -> 0

\* the file's content, one value per byte: the byte at offset i is i
fileBytes(path) == [i \in 1..statSize(path) |-> i - 1]

getMimeType(path) ==
  CASE fileExt(path) = "mp4" -> "video/mp4"
    [] fileExt(path) = "mkv" -> "video/x-matroska"
    [] fileExt(path) = "avi" -> "video/x-msvideo"
    [] OTHER                 -> "video/mp4"

\* decimal digits of a byte offset, as a client writes them in the header
RECURSIVE Decimal(_)
Decimal(n) == IF n < 10 THEN <<n>> ELSE Decimal(n \div 10) \o <<n % 10>>

\* parseInt of no digits
NaN == -1

\* parseInt(part, 10) of a string of digits
RECURSIVE parseInt(_)
parseInt(digits) ==
  IF digits = << >> THEN NaN
  ELSE IF Len(digits) = 1 THEN digits[1]
  ELSE parseInt(SubSeq(digits, 1, Len(digits) - 1)) * 10 + digits[Len(digits)]

\* req.headers.range after replace(/bytes=/, '').split('-'): the two parts;
\* << >> is a request without a Range header
NoRange == << >>

RangeHeaders ==
  {NoRange} \cup
    {<<first, last>> : first \in {<< >>} \cup {Decimal(a) : a \in 0..MaxOffset},
                       last  \in {<< >>} \cup {Decimal(b) : b \in 0..MaxOffset}}

\* (end - start) + 1
chunkSize_exclusive(start, end) == end - start

chunkSize(start, end) == (end - start) + 1

\* createReadStream(filePath, { start, end }): the bytes start..end
\* inclusive, as far as the file goes
createReadStream(path, start, end) ==
  LET last == IF end < statSize(path) - 1 THEN end ELSE statSize(path) - 1
  IN IF start > last THEN << >>
     ELSE SubSeq(fileBytes(path), start + 1, last + 1)

NoResponse ==
  [status |-> 0, contentRange |-> << >>, contentLength |-> -1,
   contentType |-> "", chunked |-> FALSE, body |-> << >>]

\* DirectStreamService.streamFile: the response it writes.  createReadStream
\* throws for a start that is no integer and for start > end, before any
\* header is written, and the catch answers 500
streamFile(path, range) ==
  IF range # NoRange
    THEN LET start == parseInt(range[1])
             end   == IF range[2] # << >> THEN parseInt(range[2]) ELSE statSize(path) - 1
         IN IF start = NaN \/ start > end
              THEN [NoResponse EXCEPT !.status = 500, !.contentType = "application/json"]
              ELSE [status |-> 206, contentRange |-> <<start, end, statSize(path)>>,
                    contentLength |-> chunkSize(start, end),
                    contentType |-> getMimeType(path), chunked |-> FALSE,
                    body |-> createReadStream(path, start, end)]
    ELSE [status |-> 200, contentRange |-> << >>, contentLength |-> statSize(path),
          contentType |-> getMimeType(path), chunked |-> FALSE,
          body |-> fileBytes(path)]

\* TranscodingService.streamTranscode: res.writeHead(200, video/mp4, chunked)
streamTranscodeHead ==
  [NoResponse EXCEPT !.status = 200, !.contentType = "video/mp4", !.chunked = TRUE]

IdleStream ==
  [pc |-> "idle", id |-> 0, range |-> NoRange, response |-> NoResponse,
   conn |-> "none", ffmpeg |-> "none"]

\* GET /stream/:id/direct: the SELECT, then by extension either
\* streamTranscode (command.pipe(res), which starts ffmpeg, and
\* res.on('close') in one stretch) or streamFile
directStream(c, id, range) ==
  /\ streamReq[c].ffmpeg # "running"
  /\ LET mediaItem == {m \in media_items : m.id = id}
         path      == (CHOOSE m \in mediaItem : TRUE).file_path
         req       == [IdleStream EXCEPT !.pc = "done", !.id = id, !.range = range]
     IN streamReq' = [streamReq EXCEPT ![c] =
          IF mediaItem = {}
            THEN [req EXCEPT !.response = [NoResponse EXCEPT !.status = 404,
                                             !.contentType = "application/json"],
                             !.conn = "closed"]
          ELSE IF fileExt(path) = "mkv"
            THEN [req EXCEPT !.response = streamTranscodeHead,
                             !.conn = "open", !.ffmpeg = "running"]
          ELSE [req EXCEPT !.response = streamFile(path, range), !.conn = "closed"]]
  /\ UNCHANGED <<authVars, epReq, netVars>>
  /\ UNCHANGED <<scanVars, cacheVars, watchVars>>

\* command.kill('SIGKILL'): signals the process if there is one
commandKill_never(state) == state

commandKill(state) == IF state = "running" THEN "killed" ELSE state

\* the client goes away: res emits 'close', the listener kills the command
clientDisconnect(c) ==
  /\ streamReq[c].conn = "open"
  /\ streamReq' = [streamReq EXCEPT ![c].conn = "closed",
                                    ![c].ffmpeg = commandKill(@)]
  /\ UNCHANGED <<authVars, epReq, netVars>>
  /\ UNCHANGED <<scanVars, cacheVars, watchVars>>

\* ffmpeg comes to the end of its input (or fails) and exits; pipe(res,
\* { end: true }) ends the response
ffmpegExit(c) ==
  /\ streamReq[c].ffmpeg = "running"
  /\ streamReq' = [streamReq EXCEPT ![c].ffmpeg = "exited", ![c].conn = "closed"]
  /\ UNCHANGED <<authVars, epReq, netVars>>
  /\ UNCHANGED <<scanVars, cacheVars, watchVars>>

\* ------------------------------------------------------------------------
\* GET /library/episode/:episodeId/next and /previous: getNextEpisode,
\* getPreviousEpisode
\* ------------------------------------------------------------------------
EpisodeClients == {1}

\* req.params.episodeId: the video player sends the media item's id
EpisodeIds == 1..6

\* a = b in SQL: never true when a side is NULL
SqlEq(a, b) == a # NullId /\ b # NullId /\ a = b

\* database.get: the first row of the result, or undefined
NoRow == << >>

\* SELECT tv_show_id, season_number, episode_number FROM episodes
\* WHERE media_item_id = ?
currentEpisodeOf(st, episodeId) ==
  LET rows == {e \in st.episodes : SqlEq(e.media_item_id, episodeId)}
  IN IF rows = {} THEN NoRow ELSE CHOOSE e \in rows : \A f \in rows : e.id <= f.id

\* FROM episodes e JOIN media_items m ON e.media_item_id = m.id
\* WHERE e.tv_show_id = ?
episodesJoined(st, tvShowId) ==
  {e \in st.episodes :
     /\ \E m \in st.media_items : SqlEq(e.media_item_id, m.id)
     /\ SqlEq(e.tv_show_id, tvShowId)}

\* (season, episode) pairs in ORDER BY season_number, episode_number
PairLess(s1, n1, s2, n2) == s1 < s2 \/ (s1 = s2 /\ n1 < n2)

EpisodeBefore(e, f) ==
  \/ PairLess(e.season_number, e.episode_number, f.season_number, f.episode_number)
  \/ (e.season_number = f.season_number /\ e.episode_number = f.episode_number /\ e.id <= f.id)

\* ORDER BY ... ASC LIMIT 1 / ORDER BY ... DESC LIMIT 1
FirstRow(rows) ==
  IF rows = {} THEN NoRow ELSE CHOOSE e \in rows : \A f \in rows : EpisodeBefore(e, f)

LastRow(rows) ==
  IF rows = {} THEN NoRow ELSE CHOOSE e \in rows : \A f \in rows : EpisodeBefore(f, e)

\* the two SELECTs of getNextEpisode: later in the same season, else the
\* first episode of a later season
nextEpisodeOf(st, cur) ==
  LET rows     == episodesJoined(st, cur.tv_show_id)
      inSeason == FirstRow({e \in rows : /\ e.season_number = cur.season_number
                                          /\ e.episode_number > cur.episode_number})
  IN IF inSeason # NoRow THEN inSeason
     ELSE FirstRow({e \in rows : e.season_number > cur.season_number})

\* the two SELECTs of getPreviousEpisode
previousEpisodeOf(st, cur) ==
  LET rows     == episodesJoined(st, cur.tv_show_id)
      inSeason == LastRow({e \in rows : /\ e.season_number = cur.season_number
                                         /\ e.episode_number < cur.episode_number})
  IN IF inSeason # NoRow THEN inSeason
     ELSE LastRow({e \in rows : e.season_number < cur.season_number})

\* before the client's first episode request
IdleEpisode == [dir |-> "none", episodeId |-> 0, status |-> 0, found |-> NoRow]

\* what either handler answers: 404 'Episode not found', 404 'No next
\* episode found', or the neighbouring row
episodeResponse(dir, episodeId, cur, neighbour) ==
  [dir |-> dir, episodeId |-> episodeId,
   status |-> IF cur = NoRow \/ neighbour = NoRow THEN 404 ELSE 200,
   found |-> IF cur = NoRow THEN NoRow ELSE neighbour]

getNextEpisode(c, episodeId) ==
  /\ LET cur == currentEpisodeOf(Store, episodeId) IN
       epReq' = [epReq EXCEPT ![c] =
         episodeResponse("next", episodeId, cur,
                         IF cur = NoRow THEN NoRow ELSE nextEpisodeOf(Store, cur))]
  /\ UNCHANGED <<authVars, streamReq, netVars>>
  /\ UNCHANGED <<scanVars, cacheVars, watchVars>>

getPreviousEpisode(c, episodeId) ==
  /\ LET cur == currentEpisodeOf(Store, episodeId) IN
       epReq' = [epReq EXCEPT ![c] =
         episodeResponse("previous", episodeId, cur,
                         IF cur = NoRow THEN NoRow ELSE previousEpisodeOf(Store, cur))]
  /\ UNCHANGED <<authVars, streamReq, netVars>>
  /\ UNCHANGED <<scanVars, cacheVars, watchVars>>

\* ------------------------------------------------------------------------
\* POST /network/discover: discoverUPnP and UPnPClient.discover
\* ------------------------------------------------------------------------
MaxDiscoverCalls == 2                \* discover calls made on the client

\* headers.USN of the devices on the network
Usns == {"uuid:A", "uuid:B"}

\* new UPnPClient(): an empty devices map; no 'response' listener yet
NewUPnPClient == [devices |-> {}, calls |-> << >>]

\* the closure of one discover call: its discoveredDevices array, and what
\* its promise resolved with
NewDiscoverCall == [discoveredDevices |-> << >>, resolved |-> FALSE, result |-> << >>]

\* client.emit('response'): the listeners of all discover calls made so far
\* run in the order they were registered (none is ever removed); each one
\* keeps the device only if this.devices does not have it yet
RECURSIVE EmitResponse(_, _, _)
EmitResponse(u, i, deviceId) ==
  IF i > Len(u.calls) THEN u
  ELSE IF deviceId \in u.devices THEN EmitResponse(u, i + 1, deviceId)
  ELSE EmitResponse([u EXCEPT !.devices = @ \cup {deviceId},
                              !.calls[i].discoveredDevices = Append(@, deviceId)],
                    i + 1, deviceId)

restOfUpnp == <<network_sources, activeClients, clients, netReq>>

\* discoverUPnP -> discover(timeout), up to the promise: devices.clear(),
\* a new array, a new listener, the searches and the timer
discoverUPnP ==
  /\ Len(upnpClient.calls) < MaxDiscoverCalls
  /\ upnpClient' = [devices |-> {}, calls |-> Append(upnpClient.calls, NewDiscoverCall)]
  /\ upnpHeard' = Append(upnpHeard, {})
  /\ UNCHANGED restOfUpnp
  /\ UNCHANGED <<scanVars, cacheVars, watchVars, authVars, streamReq, epReq>>

\* a device answers a search
ssdpResponse(usn) ==
  /\ Len(upnpClient.calls) > 0
  /\ upnpClient' = EmitResponse(upnpClient, 1, usn)
  /\ upnpHeard' = [i \in DOMAIN upnpHeard |->
                     IF upnpClient.calls[i].resolved THEN upnpHeard[i]
                     ELSE upnpHeard[i] \cup {usn}]
  /\ UNCHANGED restOfUpnp
  /\ UNCHANGED <<scanVars, cacheVars, watchVars, authVars, streamReq, epReq>>

\* setTimeout(..., timeout) of call i: resolve(discoveredDevices)
discoverTimeout(i) ==
  /\ i \in 1..Len(upnpClient.calls)
  /\ ~upnpClient.calls[i].resolved
  /\ upnpClient' = [upnpClient EXCEPT
                      !.calls[i].resolved = TRUE,
                      !.calls[i].result = upnpClient.calls[i].discoveredDevices]
  /\ UNCHANGED upnpHeard
  /\ UNCHANGED restOfUpnp
  /\ UNCHANGED <<scanVars, cacheVars, watchVars, authVars, streamReq, epReq>>

InitUpnp ==
  /\ upnpClient = NewUPnPClient
  /\ upnpHeard = << >>

\* ------------------------------------------------------------------------
\* /api/network/sources: networkController and the protocol clients
\* ------------------------------------------------------------------------
MaxClientObjects == 3                \* protocol client objects ever constructed

NetClients == {1, 2}

\* ids of the rows of network_sources
SourceIds == {1, 10}

\* values of the host column, and of the host field of an update's body
Hosts == {"h1", "h2"}

Digits == <<"0", "1", "2", "3", "4", "5", "6", "7", "8", "9">>

\* `${n}`: the decimal digits as characters
DecimalChars(n) == [i \in DOMAIN Decimal(n) |-> Digits[Decimal(n)[i] + 1]]

ProtocolChars(protocol) ==
  IF protocol = "ftp" THEN <<"f", "t", "p">> ELSE <<"s", "m", "b">>

\* `${source.protocol}-${source.id}`
ClientKey(source) ==
  ProtocolChars(source.protocol) \o <<"-">> \o DecimalChars(source.id)

\* String.prototype.includes
Includes(str, sub) ==
  \E k \in 0..(Len(str) - Len(sub)) : SubSeq(str, k + 1, k + Len(sub)) = sub

ClientKeys == {ClientKey([protocol |-> "ftp", id |-> id]) : id \in SourceIds}

NoClient == 0

NoSource == [id |-> 0, protocol |-> "", host |-> ""]

IdleNet ==
  [pc |-> "idle", op |-> "", id |-> 0, source |-> NoSource, client |-> NoClient,
   host |-> "", status |-> 0]

\* a request that has been answered
Answered(status) == [IdleNet EXCEPT !.pc = "done", !.status = status]

\* SELECT * FROM network_sources WHERE id = ?
dbGetSource(id) == {src \in network_sources : src.id = id}

\* getProtocolClient(source): the client returned, with the cache and the
\* client objects as the call leaves them; a new client takes its config
\* from the row it was handed and starts with connected = false
getProtocolClient(source) ==
  LET key == ClientKey(source) IN
  IF activeClients[key] # NoClient
    THEN [client |-> activeClients[key], cache |-> activeClients, objects |-> clients]
    ELSE [client  |-> Len(clients) + 1,
          cache   |-> [activeClients EXCEPT ![key] = Len(clients) + 1],
          objects |-> Append(clients, [host |-> source.host, connected |-> FALSE])]

restOfSources == <<upnpClient, upnpHeard>>

\* GET /network/sources/:id/browse: SELECT * FROM network_sources WHERE id = ?;
\* 404 without a row
browseDirectory(c, id) ==
  /\ netReq[c].pc \in {"idle", "done"}
  /\ netReq' = [netReq EXCEPT ![c] =
       IF dbGetSource(id) = {}
         THEN Answered(404)
         ELSE [IdleNet EXCEPT !.pc = "getClient", !.op = "browse", !.id = id,
                              !.source = CHOOSE src \in dbGetSource(id) : TRUE]]
  /\ UNCHANGED <<network_sources, activeClients, clients, restOfSources>>
  /\ UNCHANGED <<scanVars, cacheVars, watchVars, authVars, streamReq, epReq>>

\* POST /network/sources/:id/test: SELECT * FROM network_sources WHERE id = ?;
\* 404 without a row
testConnection(c, id) ==
  /\ netReq[c].pc \in {"idle", "done"}
  /\ netReq' = [netReq EXCEPT ![c] =
       IF dbGetSource(id) = {}
         THEN Answered(404)
         ELSE [IdleNet EXCEPT !.pc = "getClient", !.op = "test", !.id = id,
                              !.source = CHOOSE src \in dbGetSource(id) : TRUE]]
  /\ UNCHANGED <<network_sources, activeClients, clients, restOfSources>>
  /\ UNCHANGED <<scanVars, cacheVars, watchVars, authVars, streamReq, epReq>>

\* browseDirectory after its SELECT: getProtocolClient, then connect() if
\* the client is not connected, else list(path)
browseGetClient(c) ==
  /\ netReq[c].pc = "getClient" /\ netReq[c].op = "browse"
  /\ LET got == getProtocolClient(netReq[c].source) IN
       /\ Len(got.objects) <= MaxClientObjects
       /\ activeClients' = got.cache
       /\ clients' = got.objects
       /\ netReq' = [netReq EXCEPT ![c].client = got.client,
                       ![c].pc = IF got.objects[got.client].connected
                                   THEN "list" ELSE "connect"]
  /\ UNCHANGED <<network_sources, restOfSources>>
  /\ UNCHANGED <<scanVars, cacheVars, watchVars, authVars, streamReq, epReq>>

\* FTPClient.connect settles: connected = true, and list(path) begins; or
\* connected = false and the handler answers 500
browseConnect(c) ==
  /\ netReq[c].pc = "connect" /\ netReq[c].op = "browse"
  /\ \E ok \in BOOLEAN :
       /\ clients' = [clients EXCEPT ![netReq[c].client].connected = ok]
       /\ netReq' = [netReq EXCEPT ![c] = IF ok THEN [@ EXCEPT !.pc = "list"]
                                                 ELSE Answered(500)]
  /\ UNCHANGED <<network_sources, activeClients, restOfSources>>
  /\ UNCHANGED <<scanVars, cacheVars, watchVars, authVars, streamReq, epReq>>

\* client.list(path) settles: the listing, or an error when the connection
\* was closed under it
browseList(c) ==
  /\ netReq[c].pc = "list"
  /\ netReq' = [netReq EXCEPT ![c] =
       Answered(IF clients[netReq[c].client].connected THEN 200 ELSE 500)]
  /\ UNCHANGED <<network_sources, activeClients, clients, restOfSources>>
  /\ UNCHANGED <<scanVars, cacheVars, watchVars, authVars, streamReq, epReq>>

\* testConnection after its SELECT: getProtocolClient, then
\* client.testConnection() up to its await of connect()
testGetClient(c) ==
  /\ netReq[c].pc = "getClient" /\ netReq[c].op = "test"
  /\ LET got == getProtocolClient(netReq[c].source) IN
       /\ Len(got.objects) <= MaxClientObjects
       /\ activeClients' = got.cache
       /\ clients' = got.objects
       /\ netReq' = [netReq EXCEPT ![c].client = got.client, ![c].pc = "connect"]
  /\ UNCHANGED <<network_sources, restOfSources>>
  /\ UNCHANGED <<scanVars, cacheVars, watchVars, authVars, streamReq, epReq>>

\* BaseProtocolClient.testConnection: connect() settles; on success
\* disconnect() follows at once and sets connected = false, on failure
\* connect() has set it false itself; the handler answers 200 either way
testConnect(c) ==
  /\ netReq[c].pc = "connect" /\ netReq[c].op = "test"
  /\ clients' = [clients EXCEPT ![netReq[c].client].connected = FALSE]
  /\ netReq' = [netReq EXCEPT ![c] = Answered(200)]
  /\ UNCHANGED <<network_sources, activeClients, restOfSources>>
  /\ UNCHANGED <<scanVars, cacheVars, watchVars, authVars, streamReq, epReq>>

\* PUT /network/sources/:id with a host: the SELECT id ... that looks for
\* the row
updateNetworkSource(c, id, host) ==
  /\ netReq[c].pc \in {"idle", "done"}
  /\ netReq' = [netReq EXCEPT ![c] =
       IF dbGetSource(id) = {}
         THEN Answered(404)
         ELSE [IdleNet EXCEPT !.pc = "update", !.op = "update", !.id = id, !.host = host]]
  /\ UNCHANGED <<network_sources, activeClients, clients, restOfSources>>
  /\ UNCHANGED <<scanVars, cacheVars, watchVars, authVars, streamReq, epReq>>

\* UPDATE network_sources SET host = ? WHERE id = ?, the SELECT of the row
\* and the answer
updateRun(c) ==
  /\ netReq[c].pc = "update"
  /\ network_sources' = {IF src.id = netReq[c].id THEN [src EXCEPT !.host = netReq[c].host]
                                                  ELSE src : src \in network_sources}
  /\ netReq' = [netReq EXCEPT ![c] = Answered(200)]
  /\ UNCHANGED <<activeClients, clients, restOfSources>>
  /\ UNCHANGED <<scanVars, cacheVars, watchVars, authVars, streamReq, epReq>>

\* DELETE /network/sources/:id: DELETE FROM network_sources WHERE id = ?;
\* 404 when result.changes === 0
deleteNetworkSource(c, id) ==
  /\ netReq[c].pc \in {"idle", "done"}
  /\ network_sources' = network_sources \ dbGetSource(id)
  /\ netReq' = [netReq EXCEPT ![c] =
       IF dbGetSource(id) = {}
         THEN Answered(404)
         ELSE [IdleNet EXCEPT !.pc = "evict", !.op = "delete", !.id = id]]
  /\ UNCHANGED <<activeClients, clients, restOfSources>>
  /\ UNCHANGED <<scanVars, cacheVars, watchVars, authVars, streamReq, epReq>>

\* clientKey.includes(`-${id}`)
KeyMatches_exact(clientKey, id) == clientKey = <<"f", "t", "p", "-">> \o DecimalChars(id)

KeyMatches(clientKey, id) == Includes(clientKey, <<"-">> \o DecimalChars(id))

\* the cache entries the loop of deleteNetworkSource takes
Evicted(id) == {key \in ClientKeys : activeClients[key] # NoClient /\ KeyMatches(key, id)}

\* the loop over activeClients.entries(): disconnect() and delete for each
\* matching key, then the answer
deleteEvict(c) ==
  /\ netReq[c].pc = "evict"
  /\ clients' = [o \in DOMAIN clients |->
                   IF \E key \in Evicted(netReq[c].id) : activeClients[key] = o
                     THEN [clients[o] EXCEPT !.connected = FALSE] ELSE clients[o]]
  /\ activeClients' = [key \in ClientKeys |->
                         IF key \in Evicted(netReq[c].id) THEN NoClient ELSE activeClients[key]]
  /\ netReq' = [netReq EXCEPT ![c] = Answered(200)]
  /\ UNCHANGED <<network_sources, restOfSources>>
  /\ UNCHANGED <<scanVars, cacheVars, watchVars, authVars, streamReq, epReq>>

\* a file found on a network source
NetworkFile == "Y/c.mp4"

\* scannerService.scanDirectory(path, 'ftp', sourceConfigId) adding a file
\* of source id: the media item carries source_config_id = id
scanNetworkFile(id) ==
  /\ dbGetSource(id) # {}
  /\ media_items = {}
  /\ LET st == addMediaItem(Store, NetworkFile, "ftp", id) IN
       /\ media_items' = st.media_items
       /\ tv_shows' = st.tv_shows
       /\ episodes' = st.episodes
       /\ subtitles' = st.subtitles
  /\ UNCHANGED <<isScanning, scanProgress, scanTask, scanCall, scanResp>>
  /\ UNCHANGED <<cacheVars, watchVars, webVars>>

InitNetIdle ==
  /\ network_sources = {}
  /\ activeClients = [key \in ClientKeys |-> NoClient]
  /\ clients = << >>
  /\ netReq = [c \in NetClients |-> IdleNet]

\* two FTP sources have been created; no client has been built yet
InitSources ==
  /\ network_sources = {[id |-> id, protocol |-> "ftp", host |-> "h1"] : id \in SourceIds}
  /\ activeClients = [key \in ClientKeys |-> NoClient]
  /\ clients = << >>
  /\ netReq = [c \in NetClients |-> IdleNet]

\* ------------------------------------------------------------------------
\* Initial states and specifications
\* ------------------------------------------------------------------------
InitHttpIdle ==
  /\ users = {[id |-> 1, is_admin |-> TRUE], [id |-> 2, is_admin |-> TRUE]}
  /\ authReq = [c \in AuthClients |-> IdleReq]
  /\ streamReq = [c \in StreamClients |-> IdleStream]
  /\ epReq = [c \in EpisodeClients |-> IdleEpisode]

InitAuthIdle == InitHttpIdle /\ InitUpnp /\ InitNetIdle

InitCacheEmpty ==
  /\ disk = [path \in CachePaths |-> NoFile]
  /\ procs = EmptyBag
  /\ clock = 0
  /\ maintenance = NoResult
  /\ hlsResp = NoHlsResponse
  /\ hlsCompleted = {}
  /\ settled = NoSettled

InitWatchEmpty ==
  /\ watch_history = {}
  /\ lastID = 0
  /\ requests = EmptyBag
  /\ lastSent = [m \in WatchMedia |-> NoPosition]

\* the library after /library/scan of X and of Y
ScannedLibrary ==
  { [id |-> 1, type |-> "movie", file_path |-> "X/a.mp4", duration |-> "NULL",
     source_type |-> "local", source_config_id |-> NullId],
    [id |-> 2, type |-> "movie", file_path |-> "X/sub/b.mkv", duration |-> "NULL",
     source_type |-> "local", source_config_id |-> NullId],
    [id |-> 3, type |-> "movie", file_path |-> "Y/c.mp4", duration |-> "NULL",
     source_type |-> "local", source_config_id |-> NullId] }

\* the library after a scan that also found Z/d.avi
StreamLibrary ==
  ScannedLibrary \cup
    {[id |-> 4, type |-> "movie", file_path |-> "Z/d.avi", duration |-> "NULL",
      source_type |-> "local", source_config_id |-> NullId]}

InitScan ==
  /\ isScanning = FALSE
  /\ scanProgress = EmptyProgress
  /\ scanTask = [c \in ScanClients |-> IdleTask]
  /\ scanCall = [c \in ScanClients |-> "none"]
  /\ scanResp = [c \in ScanClients |-> 0]
  /\ media_items = {}
  /\ tv_shows = {}
  /\ episodes = {}
  /\ subtitles = {}

Init == InitScan /\ InitCacheEmpty /\ InitWatchEmpty /\ InitAuthIdle

\* the scanner at rest after the library was scanned
InitLibrary ==
  /\ isScanning = FALSE
  /\ scanProgress = [EmptyProgress EXCEPT !.totalFiles = 1, !.scannedFiles = 1, !.addedFiles = 1]
  /\ scanTask = [c \in ScanClients |-> IdleTask]
  /\ scanCall = [c \in ScanClients |-> "none"]
  /\ scanResp = [c \in ScanClients |-> 0]
  /\ media_items = ScannedLibrary
  /\ tv_shows = {}
  /\ episodes = {}
  /\ subtitles = {}

InitCache == InitLibrary /\ InitCacheEmpty /\ InitWatchEmpty /\ InitAuthIdle

\* files a server start can find under CACHE_DIR (ensureCacheDir only creates
\* the directory when it is missing)
FileStates(now) ==
  {NoFile} \cup {[exists |-> TRUE, size |-> s, mtime |-> t] : s \in 1..MaxFileSize, t \in 0..now}

InitSweep ==
  /\ InitLibrary
  /\ clock \in 0..MaxClock
  /\ disk \in [CachePaths -> FileStates(clock)]
  /\ procs = EmptyBag
  /\ maintenance = NoResult
  /\ hlsResp = NoHlsResponse
  /\ hlsCompleted = {}
  /\ settled = NoSettled
  /\ InitWatchEmpty
  /\ InitAuthIdle

InitWatch == InitLibrary /\ InitCacheEmpty /\ InitWatchEmpty /\ InitAuthIdle

InitAuth == InitLibrary /\ InitCacheEmpty /\ InitWatchEmpty /\ InitAuthIdle

NextScan ==
  \/ \E c \in ScanClients, path \in ScanPaths : scanLibrary(c, path)
  \/ \E c \in ScanClients : scanFind(c)
  \/ \E c \in ScanClients : scanAddFile(c)
  \/ \E c \in ScanClients : scanEnd(c)

SpecScan == Init /\ [][NextScan]_vars

\* every await of scanDirectory (readdir, stat, the Store's statements)
\* settles, and the event loop then resumes the scan
ScanFairness ==
  \A c \in ScanClients :
    WF_vars(scanFind(c)) /\ WF_vars(scanAddFile(c)) /\ WF_vars(scanEnd(c))

\* scans of the one-file root Y, readable or not
FairPaths == {"", "Y"}

NextScanFair ==
  \/ \E c \in ScanClients, path \in FairPaths : scanLibrary(c, path)
  \/ \E c \in ScanClients : scanFind(c)
  \/ \E c \in ScanClients : scanAddFile(c)
  \/ \E c \in ScanClients : scanEnd(c)

SpecScanFair == Init /\ [][NextScanFair]_vars /\ ScanFairness

NextIndex ==
  \/ \E c \in ScanClients, path \in IndexPaths : scanLibrary(c, path)
  \/ \E c \in ScanClients : scanFind(c)
  \/ \E c \in ScanClients : scanAddFile(c)
  \/ \E c \in ScanClients : scanEnd(c)

SpecIndex == Init /\ [][NextIndex]_vars

NextCache ==
  \/ \E id \in MediaIds, q \in Qualities : triggerTranscode(id, q)
  \/ \E id \in HlsMediaIds : getHLSManifest(id)
  \/ \E id \in HlsMediaIds, seg \in SegmentSet : getHLSSegment(id, seg)
  \/ \E x \in Commands : encoderWriteMp4(x)
  \/ \E x \in Commands : encoderWriteHls(x)
  \/ \E x \in Commands : encoderExit(x)
  \/ performMaintenance
  \/ Tick

SpecCache == InitCache /\ [][NextCache]_vars

NextSweep ==
  \/ performMaintenance
  \/ Tick

SpecSweep == InitSweep /\ [][NextSweep]_vars

NextWatch ==
  \/ \E u \in WatchUsers, m \in WatchMedia, pos \in Positions : updateWatchProgress(u, m, pos)
  \/ \E u \in WatchUsers, m \in WatchMedia : markAsWatched(u, m)
  \/ \E x \in Handling : markAsWatchedDuration(x)
  \/ \E x \in Handling : updateProgressSelect(x)
  \/ \E x \in Handling : updateProgressWrite(x)
  \/ \E u \in WatchUsers, m \in WatchMedia : markAsUnwatched(u, m)
  \/ \E u \in WatchUsers, m \in WatchMedia : resetProgress(u, m)
  \/ runMigrations
  \/ \E id \in WatchMedia : deleteMediaItem(id)
  \/ \E mediaId \in WatchMedia : adminDeleteMediaItem(mediaId)

SpecWatch == InitWatch /\ [][NextWatch]_vars

NextAuth ==
  \/ \E c \in AuthClients, router \in ProtectedRouters, cred \in Credentials :
       protectedRequest(c, router, cred)
  \/ \E c \in AuthClients, cred \in Credentials, op \in AdminOps \ {"delete"},
          target \in UserIds :
       adminRequest(c, cred, op, target)
  \/ \E c \in AuthClients : adminAuthorize(c)
  \/ \E c \in AuthClients : toggleAdminSelect(c)
  \/ \E c \in AuthClients : toggleAdminStatus(c)

SpecAuth == InitAuth /\ [][NextAuth]_vars

\* requests to /api/admin that carry a good token of a user
AdminCredentials ==
  {[carrier |-> "header", token |-> [id |-> id, state |-> "ok"]] : id \in UserIds}

\* the user administration: every admin route, by logged-in users
NextAdmin ==
  \/ \E c \in AuthClients, cred \in AdminCredentials, op \in AdminOps, target \in UserIds :
       adminRequest(c, cred, op, target)
  \/ \E c \in AuthClients : adminAuthorize(c)
  \/ \E c \in AuthClients : toggleAdminSelect(c)
  \/ \E c \in AuthClients : toggleAdminStatus(c)
  \/ \E c \in AuthClients : deleteUser(c)

SpecAdmin == InitAuth /\ [][NextAdmin]_vars

NextUpnp ==
  \/ discoverUPnP
  \/ \E usn \in Usns : ssdpResponse(usn)
  \/ \E i \in 1..MaxDiscoverCalls : discoverTimeout(i)

SpecUpnp == Init /\ [][NextUpnp]_vars

InitNetwork ==
  InitScan /\ InitCacheEmpty /\ InitWatchEmpty /\ InitHttpIdle /\ InitUpnp /\ InitSources

NextNetwork ==
  \/ \E c \in NetClients, id \in SourceIds : browseDirectory(c, id)
  \/ \E c \in NetClients, id \in SourceIds : testConnection(c, id)
  \/ \E c \in NetClients : browseGetClient(c)
  \/ \E c \in NetClients : browseConnect(c)
  \/ \E c \in NetClients : browseList(c)
  \/ \E c \in NetClients : testGetClient(c)
  \/ \E c \in NetClients : testConnect(c)
  \/ \E c \in NetClients, id \in SourceIds, host \in Hosts : updateNetworkSource(c, id, host)
  \/ \E c \in NetClients : updateRun(c)
  \/ \E c \in NetClients, id \in SourceIds : deleteNetworkSource(c, id)
  \/ \E c \in NetClients : deleteEvict(c)

SpecNetwork == InitNetwork /\ [][NextNetwork]_vars

\* the sources and the media items found on them
NextSources ==
  \/ \E c \in NetClients, id \in SourceIds, host \in Hosts : updateNetworkSource(c, id, host)
  \/ \E c \in NetClients : updateRun(c)
  \/ \E c \in NetClients, id \in SourceIds : deleteNetworkSource(c, id)
  \/ \E c \in NetClients : deleteEvict(c)
  \/ \E id \in SourceIds : scanNetworkFile(id)

SpecSources == InitNetwork /\ [][NextSources]_vars

InitStream ==
  /\ isScanning = FALSE
  /\ scanProgress = [EmptyProgress EXCEPT !.totalFiles = 1, !.scannedFiles = 1, !.addedFiles = 1]
  /\ scanTask = [c \in ScanClients |-> IdleTask]
  /\ scanCall = [c \in ScanClients |-> "none"]
  /\ scanResp = [c \in ScanClients |-> 0]
  /\ media_items = StreamLibrary
  /\ tv_shows = {}
  /\ episodes = {}
  /\ subtitles = {}
  /\ InitCacheEmpty /\ InitWatchEmpty /\ InitAuthIdle

NextStream ==
  \/ \E c \in StreamClients, id \in StreamMediaIds, range \in RangeHeaders :
       directStream(c, id, range)
  \/ \E c \in StreamClients : clientDisconnect(c)
  \/ \E c \in StreamClients : ffmpegExit(c)

SpecStream == InitStream /\ [][NextStream]_vars

\* scans of the library directory L and the episode navigation of the player
NextEpisodes ==
  \/ \E c \in ScanClients : scanLibrary(c, "L")
  \/ \E c \in ScanClients : scanFind(c)
  \/ \E c \in ScanClients : scanAddFile(c)
  \/ \E c \in ScanClients : scanEnd(c)
  \/ \E c \in EpisodeClients, episodeId \in EpisodeIds : getNextEpisode(c, episodeId)
  \/ \E c \in EpisodeClients, episodeId \in EpisodeIds : getPreviousEpisode(c, episodeId)

SpecEpisodes == Init /\ [][NextEpisodes]_vars

\* the HLS endpoints, the generation jobs they start and cache maintenance
NextHls ==
  \/ \E id \in HlsMediaIds : getHLSManifest(id)
  \/ \E id \in HlsMediaIds, seg \in SegmentSet : getHLSSegment(id, seg)
  \/ \E x \in Commands : encoderWriteHls(x)
  \/ \E x \in Commands : encoderExit(x)
  \/ performMaintenance
  \/ Tick

SpecHls == InitCache /\ [][NextHls]_vars

\* ------------------------------------------------------------------------
\* C1: at most one scan runs at a time; a scan call made while another scan
\* is running is rejected with 'Scan already in progress' and never starts.
\* ------------------------------------------------------------------------
C1_AtMostOneScan ==
  /\ Cardinality(RunningScans) <= 1
  /\ isScanning <=> (RunningScans # {})
  /\ \A c \in ScanClients :
       scanCall[c] = "Scan already in progress" => scanTask[c].pc = "idle"

C1_Witness ==
  \E c, d \in ScanClients :
    /\ c # d
    /\ scanTask[c].pc = "add"
    /\ scanCall[d] = "Scan already in progress"

\* ------------------------------------------------------------------------
\* C2: a POST /library/scan made while a scan is running is answered 409.
\* ------------------------------------------------------------------------
C2_BusyAnswered409 ==
  \A c \in ScanClients :
    scanCall[c] = "Scan already in progress" => scanResp[c] = 409

\* ------------------------------------------------------------------------
\* C3: for every job key (output path of a file transcode, media id of an
\* HLS generation) at most one encoder process is running at any time.
\* ------------------------------------------------------------------------
C3_OneProcessPerKey ==
  \A x \in Running :
    /\ CopiesIn(x, procs) = 1
    /\ \A y \in Running : SameKey(x, y) => x = y

\* ------------------------------------------------------------------------
\* C4: no step deletes a file that a running encoder job is writing (the
\* only steps that delete files are the sweeps of performMaintenance).
\* ------------------------------------------------------------------------
C4_SweepsSpareInFlight ==
  [][\A path \in CachePaths :
       (path \in InFlight /\ disk[path].exists) => disk'[path].exists]_vars

\* bytes held by a set of files
RECURSIVE Bytes(_, _)
Bytes(d, S) ==
  IF S = {} THEN 0
  ELSE LET f == CHOOSE g \in S : TRUE IN d[f].size + Bytes(d, S \ {f})

FilesOn(d) == {path \in CachePaths : d[path].exists}

C6_ServingRefreshesMtime ==
  \A path \in CachePaths :
    existsSync(path) => readCached(disk, path)[path].mtime = clock

\* ------------------------------------------------------------------------
\* C7: watch_history holds at most one row per (user, media item).
\* ------------------------------------------------------------------------
C7_OneRowPerPair ==
  \A r1, r2 \in watch_history :
    (r1.user_id = r2.user_id /\ r1.media_item_id = r2.media_item_id) => r1 = r2

\* ------------------------------------------------------------------------
\* C8: once every request of a pair has been answered, the pair's record
\* (one of them, should there be several) holds the position the session
\* sent last.
\* ------------------------------------------------------------------------
C8_LatestIssuedWins ==
  \A u \in WatchUsers, m \in WatchMedia :
    (/\ lastSent[m] # NoPosition
     /\ \A x \in Handling : x.mediaItemId # m)
      => \E r \in RowsOf(u, m) : r.current_time = lastSent[m][1]

\* current / duration >= threshold, for duration # 0
RatioReached(currentTime, duration) ==
  IF duration > 0
    THEN currentTime * continueWatchingThreshold.den >= continueWatchingThreshold.num * duration
    ELSE currentTime * continueWatchingThreshold.den <= continueWatchingThreshold.num * duration

C10_ProgressIsFraction ==
  \A r \in watch_history :
    /\ 0 <= r.progress.num
    /\ r.progress.num <= r.progress.den

\* mediaItem?.duration || 0
DurationOrZero(mediaItemId) ==
  LET mediaItem == {m \in media_items : m.id = mediaItemId}
  IN IF mediaItem = {} THEN 0
     ELSE LET m == CHOOSE m \in mediaItem : TRUE
          IN IF m.duration = "NULL" THEN 0 ELSE m.duration

\* ------------------------------------------------------------------------
\* C11: when a mark-watched request on an existing media item has been
\* carried out, get-progress returns a record with completed = true,
\* progress = 1 and current position = duration = the item's duration.
\* ------------------------------------------------------------------------
C11_MarkWatchedThenGetProgress ==
  [][\A x \in Handling :
       (/\ x.op = "watched"
        /\ \E mi \in media_items : mi.id = x.mediaItemId
        /\ updateProgressWrite(x))
       => LET record == getProgress(x.userId, x.mediaItemId)'
          IN /\ record # NoRecord
             /\ record.completed
             /\ record.progress.num = record.progress.den
             /\ record.current_time = record.duration
             /\ record.duration = DurationOrZero(x.mediaItemId)
  ]_vars

\* rows of a table that reference a media item
Referencing(table, id) == {r \in table : r.media_item_id = id}

\* ------------------------------------------------------------------------
\* C12: a step that deletes a media item leaves no episodes, subtitles or
\* watch_history row that references it.
\* ------------------------------------------------------------------------
C12_DeleteCascades ==
  [][\A m \in media_items :
       (\A n \in media_items' : n.id # m.id)
       => /\ Referencing(episodes', m.id) = {}
          /\ Referencing(subtitles', m.id) = {}
          /\ Referencing(watch_history', m.id) = {}
  ]_vars

\* ------------------------------------------------------------------------
\* C13: no two media items share (source_type, source_config_id, file_path).
\* ------------------------------------------------------------------------
C13_SourcePathUnique ==
  \A a, b \in media_items :
    (/\ a.source_type = b.source_type
     /\ a.source_config_id = b.source_config_id
     /\ a.file_path = b.file_path) => a = b

\* ------------------------------------------------------------------------
\* C14: when no scan is running, every media item of type episode has
\* exactly one episodes row whose media_item_id is the item's id.
\* ------------------------------------------------------------------------
C14_EpisodeItemHasOneRow ==
  ~isScanning =>
    \A m \in media_items :
      m.type = "episode" => Cardinality(Referencing(episodes, m.id)) = 1

\* ------------------------------------------------------------------------
\* C15: for every episodes row a tv_shows row with the row's tv_show_id
\* exists.
\* ------------------------------------------------------------------------
C15_EpisodeShowExists ==
  \A e \in episodes : \E t \in tv_shows : t.id = e.tv_show_id

\* ------------------------------------------------------------------------
\* C16: within one TV show no two episodes rows have the same
\* (season_number, episode_number).
\* ------------------------------------------------------------------------
C16_SeasonEpisodeUnique ==
  \A e1, e2 \in episodes :
    (/\ e1.tv_show_id # NullId
     /\ e1.tv_show_id = e2.tv_show_id
     /\ e1.season_number = e2.season_number
     /\ e1.episode_number = e2.episode_number) => e1 = e2

\* ------------------------------------------------------------------------
\* C17: every episodes row has season_number >= 1 and episode_number >= 1.
\* ------------------------------------------------------------------------
C17_NumbersAtLeastOne ==
  \A e \in episodes : e.season_number >= 1 /\ e.episode_number >= 1

\* ------------------------------------------------------------------------
\* C18: a scan that comes to a file the Store already holds leaves the
\* Store as it is and does not count the file in addedFiles (so a second
\* scan of an unchanged tree changes nothing and reports addedFiles = 0).
\* ------------------------------------------------------------------------
C18_RescanAddsNothing ==
  [][\A c \in ScanClients :
       (/\ scanTask[c].pc = "add"
        /\ scanTask[c].k <= Len(scanTask[c].videoFiles)
        /\ \E m \in media_items : m.file_path = scanTask[c].videoFiles[scanTask[c].k]
        /\ scanAddFile(c))
       => /\ UNCHANGED storeVars
          /\ scanProgress'.addedFiles = scanProgress.addedFiles
  ]_vars

\* ------------------------------------------------------------------------
\* C19: a failure on one file is recorded in scanProgress.errors and the
\* scan goes on: while the loop runs every file before the current one has
\* been counted, as added or as an error, and a scan that has ended resolved
\* with scannedFiles = totalFiles.
\* ------------------------------------------------------------------------
C19_FileErrorsNotFatal ==
  \A c \in ScanClients :
    /\ scanTask[c].pc = "add" =>
         /\ scanProgress.scannedFiles = scanTask[c].k - 1
         /\ scanProgress.addedFiles + Len(scanProgress.errors) = scanProgress.scannedFiles
         /\ \A i \in 1..Len(scanProgress.errors) :
              \E j \in 1..(scanTask[c].k - 1) :
                scanTask[c].videoFiles[j] = scanProgress.errors[i]
    /\ (scanTask[c].pc = "ended" /\ ~isScanning) =>
         /\ scanCall[c] = "resolved"
         /\ scanProgress.scannedFiles = scanProgress.totalFiles
         /\ scanProgress.addedFiles + Len(scanProgress.errors) = scanProgress.totalFiles

\* a scan of two files has ended: the first failed, the second was indexed
C19_Witness ==
  \E c \in ScanClients :
    /\ scanTask[c].pc = "ended" /\ ~isScanning
    /\ Len(scanTask[c].videoFiles) = 2
    /\ scanProgress.errors = <<scanTask[c].videoFiles[1]>>
    /\ scanProgress.addedFiles = 1
    /\ \E m \in media_items : m.file_path = scanTask[c].videoFiles[2]

\* ------------------------------------------------------------------------
\* C20: when no scan is running, every indexed movie or episode has exactly
\* one subtitles row, attached to its media item, for each subtitle file
\* beside it whose name starts with the video's stem.
\* ------------------------------------------------------------------------
C20_SidecarsAttached ==
  ~isScanning =>
    \A m \in media_items :
      m.type \in {"movie", "episode"} =>
        \A i \in 1..Len(SubtitleFiles(m.file_path)) :
          Cardinality({sub \in Referencing(subtitles, m.id) :
                         sub.file_path = SubtitleFiles(m.file_path)[i]}) = 1

\* ------------------------------------------------------------------------
\* C21: on every protected router (library, stream, network, metadata,
\* subtitles, admin) a request without a credential is answered 401 and a
\* request with an invalid or expired credential is answered 403, and in
\* both cases the handler does not run.
\* ------------------------------------------------------------------------
C21_Missing401Invalid403 ==
  \A c \in AuthClients :
    authReq[c].pc = "done" =>
      /\ authReq[c].cred = "none" => (authReq[c].status = 401 /\ ~authReq[c].ran)
      /\ authReq[c].cred = "invalid" => (authReq[c].status = 403 /\ ~authReq[c].ran)

\* ------------------------------------------------------------------------
\* C22: requireAdmin lets a request through to an admin handler only if
\* the users row read for this request has is_admin set, whatever token
\* the request carries: after a user's flag has been cleared, a request
\* with a token issued earlier is refused.
\* ------------------------------------------------------------------------
C22_AdminFromStoreEachRequest ==
  [][\A c \in AuthClients :
       (authReq[c].pc = "select" /\ adminAuthorize(c) /\ authReq'[c].ran)
       => \E u \in users : u.id = authReq[c].id /\ u.is_admin
  ]_vars

\* user 2's flag was cleared by client 1; client 2, with a valid token of
\* user 2, was then refused with 403
C22_Witness ==
  /\ authReq[1].pc = "done" /\ authReq[1].op = "toggle" /\ authReq[1].target = 2
  /\ authReq[1].status = 200 /\ ~authReq[1].newStatus
  /\ authReq[2].pc = "done" /\ authReq[2].router = "admin" /\ authReq[2].id = 2
  /\ authReq[2].cred = "valid" /\ authReq[2].status = 403 /\ ~authReq[2].ran
  /\ \E u \in users : u.id = 2 /\ ~u.is_admin

\* the media item a finished direct-stream request was for
StreamedItem(c) == CHOOSE m \in media_items : m.id = streamReq[c].id

\* ------------------------------------------------------------------------
\* C23: for a directly served file of size S and Range: bytes=a-b with
\* 0 <= a <= b < S the response is 206 with Content-Range: bytes a-b/S,
\* Content-Length b - a + 1 and exactly the bytes a..b.
\* ------------------------------------------------------------------------
C23_RangeServedExactly ==
  \A c \in StreamClients, a, b \in 0..MaxOffset :
    (/\ streamReq[c].pc = "done"
     /\ \E m \in media_items : m.id = streamReq[c].id /\ fileExt(m.file_path) = "mp4"
     /\ streamReq[c].range = <<Decimal(a), Decimal(b)>>
     /\ a <= b /\ b < statSize(StreamedItem(c).file_path))
    => /\ streamReq[c].response.status = 206
       /\ streamReq[c].response.contentRange = <<a, b, statSize(StreamedItem(c).file_path)>>
       /\ streamReq[c].response.contentLength = b - a + 1
       /\ streamReq[c].response.body = [k \in 1..(b - a + 1) |-> a + k - 1]

\* Range: bytes=0-0 on X/a.mp4 was answered 206 with the one byte 0, and
\* bytes=1-2 with the two bytes 1 and 2
C23_Witness ==
  \E c \in StreamClients :
    /\ streamReq[c].pc = "done" /\ streamReq[c].id = 1
    /\ streamReq[c].range = <<Decimal(1), Decimal(2)>>
    /\ streamReq[c].response.status = 206
    /\ streamReq[c].response.body = <<1, 2>>

\* ------------------------------------------------------------------------
\* C24: a direct-stream request with Range: bytes=<size>- (a range that
\* starts at the end of the file) is answered 416.
\* ------------------------------------------------------------------------
C24_RangeBeyondEnd416 ==
  \A c \in StreamClients :
    (/\ streamReq[c].pc = "done"
     /\ \E m \in media_items : m.id = streamReq[c].id /\ fileExt(m.file_path) = "mp4"
     /\ streamReq[c].range = <<Decimal(statSize(StreamedItem(c).file_path)), << >> >>)
    => streamReq[c].response.status = 416

\* containers a browser plays as they are
WebNative(path) == fileExt(path) \in {"mp4", "webm"}

\* ------------------------------------------------------------------------
\* C25: a direct-stream request for a file whose container is not
\* web-native is answered with a realtime transcode (200, chunked,
\* video/mp4), never with the file's bytes; a web-native file is served
\* directly.
\* ------------------------------------------------------------------------
C25_TranscodeIffNotWebNative ==
  \A c \in StreamClients :
    (streamReq[c].pc = "done" /\ \E m \in media_items : m.id = streamReq[c].id)
    => IF WebNative(StreamedItem(c).file_path)
         THEN /\ streamReq[c].ffmpeg = "none"
              /\ streamReq[c].response.contentType = getMimeType(StreamedItem(c).file_path)
                   \/ streamReq[c].response.status = 500
         ELSE /\ streamReq[c].response = streamTranscodeHead
              /\ streamReq[c].ffmpeg # "none"

HlsJobs(b, id) ==
  BagCardinality([x \in {y \in BagToSet(b) : y.kind = "hls" /\ y.id = id} |-> b[x]])

C28_ListedSegmentsFetchable ==
  (hlsResp.kind = "manifest" /\ hlsResp.status = 200)
    => \A i \in 1..Len(hlsResp.body) : existsSync(SegmentPath(hlsResp.id, hlsResp.body[i]))

\* ------------------------------------------------------------------------
\* C29: when a file transcode fails, the caller receives the failure (the
\* promise of transcodeToMP4 is rejected) and the partially written output
\* is deleted: the job's output path does not exist afterwards.
\* ------------------------------------------------------------------------
C29_FailedTranscodeLeavesNoOutput ==
  (settled.kind = "mp4" /\ settled.outcome = "rejected")
    => ~existsSync(Mp4Path(settled.id, settled.q))

\* the episodes of the show of media item m, as the files name them
EpisodeItems == {m \in media_items : m.type = "episode"}

SameShow(m, n) ==
  parseEpisodeInfo(m.file_path).showName = parseEpisodeInfo(n.file_path).showName

ItemBefore(m, n) ==
  PairLess(parseEpisodeInfo(m.file_path).seasonNumber, parseEpisodeInfo(m.file_path).episodeNumber,
           parseEpisodeInfo(n.file_path).seasonNumber, parseEpisodeInfo(n.file_path).episodeNumber)

LaterItems(m) == {n \in EpisodeItems : SameShow(m, n) /\ ItemBefore(m, n)}

EarlierItems(m) == {n \in EpisodeItems : SameShow(m, n) /\ ItemBefore(n, m)}

\* the answer names one of the candidates nearest to the episode asked for
AnswersNearest(resp, candidates, nearest(_, _)) ==
  IF candidates = {} THEN resp.status = 404
  ELSE /\ resp.status = 200
       /\ \E n \in candidates :
            /\ resp.found.media_item_id = n.id
            /\ \A k \in candidates : ~nearest(k, n)

\* ------------------------------------------------------------------------
\* C30: for an episode e of a show, next-episode answers with the episode
\* of the same show that has the smallest (season, episode) pair greater
\* than e's, and with 404 when e is the show's last episode;
\* previous-episode answers symmetrically.
\* ------------------------------------------------------------------------
C30_NeighbourAcrossSeasons ==
  [][\A c \in EpisodeClients, m \in EpisodeItems :
       /\ getNextEpisode(c, m.id)
             => AnswersNearest(epReq'[c], LaterItems(m), ItemBefore)
       /\ getPreviousEpisode(c, m.id)
             => AnswersNearest(epReq'[c], EarlierItems(m), LAMBDA k, n : ItemBefore(n, k))]_vars

\* ------------------------------------------------------------------------
\* C40: no admin deletes or demotes their own account (such a request is
\* answered 400 and leaves the users table alone), and once a user with
\* is_admin exists, one exists after every step of delete-user and
\* toggle-admin requests, however they interleave.
\* ------------------------------------------------------------------------
C40_AdminAlwaysRemains ==
  [][/\ \A c \in AuthClients :
          (/\ authReq[c].pc = "select" /\ adminAuthorize(c)
           /\ authReq[c].op \in {"toggle", "delete"}
           /\ authReq[c].target = authReq[c].id /\ authReq'[c].ran)
          => authReq'[c].pc = "done" /\ authReq'[c].status = 400
     /\ (\E u \in users : u.is_admin) => (\E u \in users' : u.is_admin)
  ]_vars

\* ------------------------------------------------------------------------
\* C37: a path that transcodeQuality returns as a cache hit names a
\* completely written output: no running encoder job is still writing it.
\* ------------------------------------------------------------------------
C37_CacheHitIsComplete ==
  [][\A id \in MediaIds, q \in Qualities :
       (MediaExists(id) /\ AlreadyTranscoded(id, q) /\ triggerTranscode(id, q))
       => Mp4Path(id, q) \notin InFlight]_vars

\* ------------------------------------------------------------------------
\* C38: the job tables mirror the running encoder processes: a key is in
\* activeTranscodes / activeStreams exactly when an encoder process for it
\* is running, so a cancel for the key of a running process finds it and
\* returns true.
\* ------------------------------------------------------------------------
C38_JobTablesMirrorProcesses ==
  /\ \A x \in Running :
        IF x.kind = "mp4" THEN cancelTranscode(Mp4Path(x.id, x.q))
                          ELSE cancelGeneration(x.id)
  /\ \A id \in MediaIds, q \in Qualities :
        Mp4Path(id, q) \in activeTranscodes
          => \E x \in Running : x.kind = "mp4" /\ x.id = id /\ x.q = q
  /\ \A id \in HlsMediaIds :
        id \in activeStreams => \E x \in Running : x.kind = "hls" /\ x.id = id

\* ------------------------------------------------------------------------
\* C36: every scan that starts eventually ends with isScanning cleared,
\* whether its files were added or failed; the flag is set only while a
\* scan is running, so a scan requested after the end is accepted.
\* ------------------------------------------------------------------------
C36_ScanEndsFlagCleared ==
  /\ \A c \in ScanClients :
        (scanTask[c].pc \in {"find", "add"})
          ~> (scanTask[c].pc \notin {"find", "add"} /\ ~isScanning)
  /\ [](isScanning => RunningScans # {})
  /\ [][\A c \in ScanClients, path \in FairPaths \ {""} :
          (RunningScans = {} /\ scanLibrary(c, path)) => scanCall'[c] = "pending"]_vars

\* a scan in which a file failed has ended with the flag cleared
C36_Witness ==
  \E c \in ScanClients :
    /\ scanTask[c].pc = "ended" /\ scanCall[c] = "resolved"
    /\ scanProgress.errors # << >>
    /\ ~isScanning

\* the elements of a sequence
Range(seq) == {seq[i] : i \in DOMAIN seq}

NoDuplicates(seq) == \A i, j \in DOMAIN seq : seq[i] = seq[j] => i = j

\* ------------------------------------------------------------------------
\* C31: each discover call resolves, at its deadline, with every device
\* that responded while the call was pending, each exactly once (unique by
\* USN); for the first call and for every later or overlapping call.
\* ------------------------------------------------------------------------
C31_DiscoverReturnsRespondersOnce ==
  \A i \in DOMAIN upnpClient.calls :
    upnpClient.calls[i].resolved
      => /\ NoDuplicates(upnpClient.calls[i].result)
         /\ Range(upnpClient.calls[i].result) = upnpHeard[i]

\* the media items whose source_config_id names source id
ReferencedBy(id) == {m \in media_items : SqlEq(m.source_config_id, id)}

UsersOf(o) == {c \in NetClients : netReq[c].pc \in {"connect", "list"} /\ netReq[c].client = o}

\* ------------------------------------------------------------------------
\* C33: after a network source is updated or deleted its cached client is
\* disconnected and gone from the cache, so that the next operation on the
\* source gets a client built from the row it read from the Store.
\* ------------------------------------------------------------------------
C33_UpdateAndDeleteEvict ==
  [][\A c \in NetClients :
       /\ (updateRun(c) \/ deleteEvict(c))
            => \A key \in ClientKeys :
                 key = ClientKey([protocol |-> "ftp", id |-> netReq[c].id])
                   => /\ activeClients'[key] = NoClient
                      /\ activeClients[key] # NoClient
                           => ~clients'[activeClients[key]].connected
       /\ (browseGetClient(c) \/ testGetClient(c))
            => clients'[netReq'[c].client].host = netReq[c].source.host]_vars

\* ------------------------------------------------------------------------
\* C34: deleting a network source does not disconnect a client while a
\* browse or test operation that uses it is still in progress.
\* ------------------------------------------------------------------------
C34_DeleteWaitsForOperations ==
  [][\A c \in NetClients :
       deleteEvict(c)
         => \A key \in Evicted(netReq[c].id) : UsersOf(activeClients[key]) = {}]_vars

\* ------------------------------------------------------------------------
\* C35: testing a source's connection has no side effects: the steps of a
\* test leave the client cache as it was and leave the source's client as
\* connected as it was, also while a browse on the source is in progress.
\* ------------------------------------------------------------------------
C35_TestLeavesNoTrace ==
  [][\A c \in NetClients :
       /\ testGetClient(c) => activeClients' = activeClients
       /\ testConnect(c)
            => clients'[netReq[c].client].connected = clients[netReq[c].client].connected]_vars

\* ------------------------------------------------------------------------
\* C39: deleting network source N disconnects and evicts only the cached
\* client of source N: the clients cached for every other source stay
\* cached and connected.
\* ------------------------------------------------------------------------
C39_DeleteEvictsOnlyItsClient ==
  [][\A c \in NetClients : \A other \in SourceIds \ {netReq[c].id} :
       deleteEvict(c)
         => LET key == ClientKey([protocol |-> "ftp", id |-> other]) IN
            /\ activeClients'[key] = activeClients[key]
            /\ activeClients[key] # NoClient
                 => clients'[activeClients[key]].connected
                      = clients[activeClients[key]].connected]_vars

====
